---- MODULE Spec2Model ----
(***************************************************************************)
(* Model of wysknd-aws-lambda: the HandlerWrapper that decorates an AWS    *)
(* lambda handler (alias resolution, configuration lookup, logger          *)
(* construction, keep-warm short circuit, catch-all failure boundary) and  *)
(* the LambdaLogger factory it uses.                                        *)
(*                                                                         *)
(* JavaScript values are records tagged by their type in field k; JavaScript*)
(* strings are TLA+ strings; JavaScript objects are functions from property *)
(* names to values.                                                         *)
(***************************************************************************)
EXTENDS Integers, Sequences, FiniteSets, TLC

VARIABLES
    wrapper,      \* the HandlerWrapper instance (its _appName), or NoObject
    wrapped,      \* the closure returned by wrap(): handler + lambdaName
    lastCall,     \* the last constructor / wrap() call and what it threw
    config,       \* the configuration the process loads: the object of
                  \* require('config'), the files rc reads
    backend,      \* health of the external logging backend: "ok", info
                  \* always throws, error always throws, or the first
                  \* info of each invocation throws
    providerCfg,  \* what _loggerProvider.configure() was last given
    heap,         \* every object allocated by an invocation, in order
    now,          \* the clock read by Date.now()
    hist,         \* one record per invocation of the wrapped handler
    arnSegs,      \* the segments an ARN was assembled from
    arnArg,       \* argument of a direct _initAlias call
    aliasRet,     \* its return value
    factory,      \* the LambdaLogger instance, or NoObject
    lambdaConfig, \* the LambdaConfig instance, or NoObject
    nodeEnv,      \* process.env.NODE_ENV
    environment   \* the Environment instance, or NoObject

vars == <<wrapper, wrapped, lastCall, config, backend, providerCfg, heap,
          now, hist, arnSegs, arnArg, aliasRet, factory, lambdaConfig,
          nodeEnv, environment>>

setupVars == <<wrapper, wrapped, lastCall>>
processVars == <<config, backend, providerCfg, heap, now, hist>>
aliasVars == <<arnSegs, arnArg, aliasRet>>
libVars == <<factory, lambdaConfig, nodeEnv, environment>>

----------------------------------------------------------------------------
(* Bounds *)

MaxSegs == 9        \* longest ARN, in colon separated segments
MaxInv == 2         \* invocations of the wrapped handler per process
MaxTime == 2        \* last clock reading

----------------------------------------------------------------------------
(* JavaScript values *)

Undef == [k |-> "undefined"]
Null == [k |-> "null"]
Bool(b) == [k |-> "boolean", b |-> b]
Num(n) == [k |-> "number", n |-> n]
Str(s) == [k |-> "string", s |-> s]
Fn(name) == [k |-> "function", f |-> name]
Obj(props) == [k |-> "object", props |-> props]
Arr(items) == [k |-> "array", items |-> items]
Err(message) == [k |-> "Error", message |-> message]

\* NaN: typeof NaN is 'number'; every comparison with it is false
NaN == [k |-> "number", nan |-> TRUE]
IsNaN(v) == "nan" \in DOMAIN v

EmptyObject == <<>>

\* no object: what a variable holds before the object is made, what a call
\* that threw returns
NoObject == [k |-> "none"]

\* obj[key]: undefined when the property is absent
Get(obj, key) == IF key \in DOMAIN obj THEN obj[key] ELSE Undef

\* ToBoolean
Truthy(v) ==
    CASE v.k = "undefined" -> FALSE
      [] v.k = "null" -> FALSE
      [] v.k = "boolean" -> v.b
      [] v.k = "number" -> (~IsNaN(v) /\ v.n # 0)
      [] v.k = "string" -> Len(v.s) > 0
      [] OTHER -> TRUE

\* ToString, as a template literal applies it
ToStr(v) ==
    CASE v.k = "undefined" -> "undefined"
      [] v.k = "null" -> "null"
      [] v.k = "boolean" -> (IF v.b THEN "true" ELSE "false")
      [] v.k = "number" -> (IF IsNaN(v) THEN "NaN" ELSE ToString(v.n))
      [] v.k = "string" -> v.s
      [] v.k = "Error" -> "Error: " \o v.message
      [] v.k = "array" -> ""
      [] v.k = "function" -> "function " \o v.f \o "() {}"
      [] OTHER -> "[object Object]"

\* typeof v === 'string' && v.length > 0
IsNonEmptyString(v) == v.k = "string" /\ Len(v.s) > 0

----------------------------------------------------------------------------
(* String.prototype.split on a one character separator *)

RECURSIVE SplitFrom(_, _, _, _, _)
SplitFrom(s, sep, i, cur, acc) ==
    IF i > Len(s) THEN Append(acc, cur)
    ELSE IF SubSeq(s, i, i) = sep
         THEN SplitFrom(s, sep, i + 1, "", Append(acc, cur))
         ELSE SplitFrom(s, sep, i + 1, cur \o SubSeq(s, i, i), acc)

Split(s, sep) == SplitFrom(s, sep, 1, "", <<>>)

\* array[i], zero based: undefined past the end
At(array, i) == IF i + 1 <= Len(array) THEN Str(array[i + 1]) ELSE Undef

RECURSIVE Join(_, _)
Join(segs, sep) ==
    IF Len(segs) = 0 THEN ""
    ELSE IF Len(segs) = 1 THEN segs[1]
    ELSE segs[1] \o sep \o Join(Tail(segs), sep)

----------------------------------------------------------------------------
(* HandlerWrapper._initAlias *)

AliasIndex == 7
LATEST == "$LATEST"

InitAliasNoSentinel(arn) ==
    LET alias == At(Split(arn, ":"), AliasIndex)
    IN  IF alias = Undef THEN Str("") ELSE alias

InitAliasNa(arn) ==
    LET alias == At(Split(arn, ":"), AliasIndex)
    IN  IF alias = Undef \/ alias = Str(LATEST) THEN Str("na") ELSE alias

InitAlias(arn) ==
    LET alias == At(Split(arn, ":"), AliasIndex)
    IN  IF alias = Undef \/ alias = Str(LATEST) THEN Str("") ELSE alias

\* ARNs given to the wrapped handler: unqualified, qualified by an alias,
\* qualified by $LATEST
FunctionArn == "arn:aws:lambda:us-east-1:123456789012:function:fn"
Arns == {FunctionArn, FunctionArn \o ":dev", FunctionArn \o ":" \o LATEST}

\* the same, and the ARN with an empty qualifier
AllArns == Arns \cup {FunctionArn \o ":"}

\* _initAlias on each of these ARNs, evaluated once
AliasOfArn == [arn \in AllArns |-> InitAlias(arn)]

----------------------------------------------------------------------------
(* Statements that may throw: the events they caused, then the exception *)

Ev(op, by, args) == [op |-> op, by |-> by, args |-> args]

Ok(ev) == [ev |-> ev, threw |-> FALSE, ex |-> Undef]
Throw(ev, ex) == [ev |-> ev, threw |-> TRUE, ex |-> ex]

\* a; b
Then(a, b) ==
    IF a.threw THEN a
    ELSE [ev |-> a.ev \o b.ev, threw |-> b.threw, ex |-> b.ex]

\* calls of one operation among the events
Calls(ev, op) == SelectSeq(ev, LAMBDA e : e.op = op)
CallsBy(ev, op, by) == SelectSeq(ev, LAMBDA e : e.op = op /\ e.by = by)

\* position of the first call of op, or 0
RECURSIVE FirstFrom(_, _, _)
FirstFrom(ev, op, i) ==
    IF i > Len(ev) THEN 0
    ELSE IF ev[i].op = op THEN i ELSE FirstFrom(ev, op, i + 1)

First(ev, op) == FirstFrom(ev, op, 1)

----------------------------------------------------------------------------
(* The heap: object identity is the position of the object in the heap *)

AllocReuse(h, obj) ==
    IF \E i \in 1..Len(h) : h[i].type = obj.type
    THEN [heap |-> h,
          id |-> CHOOSE i \in 1..Len(h) : h[i].type = obj.type]
    ELSE [heap |-> Append(h, obj), id |-> Len(h) + 1]

Alloc(h, obj) == [heap |-> Append(h, obj), id |-> Len(h) + 1]

----------------------------------------------------------------------------
(* LambdaLogger *)

NotConfigured == [configured |-> FALSE]
BackendFailure == Err("logging backend failure")

\* new LambdaLogger(appName, logLevel): the provider configuration it leaves
LambdaLoggerCtor(cfg, appName, logLevel) ==
    IF ~IsNonEmptyString(appName)
    THEN [threw |-> TRUE, ex |-> Err("Invalid appName specified (arg #1)"),
          providerCfg |-> cfg, ev |-> <<>>]
    ELSE IF ~IsNonEmptyString(logLevel)
    THEN [threw |-> TRUE, ex |-> Err("Invalid logLevel specified (arg #2)"),
          providerCfg |-> cfg, ev |-> <<>>]
    ELSE [threw |-> FALSE, ex |-> Undef,
          providerCfg |-> [configured |-> TRUE, appName |-> appName,
                           logLevel |-> logLevel],
          ev |-> <<Ev("_loggerProvider.configure", "LambdaLogger",
                      <<[appName |-> appName, logLevel |-> logLevel]>>)>>]

LoggerMetaLegacyEnv(alias, executionId) ==
    [env |-> IF alias = Str("") THEN Str("na") ELSE alias, alias |-> alias,
     executionId |-> executionId]

\* the metadata getLogger hands to the backend
LoggerMeta(alias, executionId) ==
    [env |-> alias, alias |-> alias, executionId |-> executionId]

\* _shortId.generate(): a non-empty string that no earlier call returned
ShortId(n) == Str("id" \o ToString(n))

\* _loggerProvider.getLogger(name, meta): the backend hands out a logger made
\* under its current configuration
BackendGetLogger(h, cfg, name, meta) ==
    Alloc(h, [type |-> "logger", name |-> name, meta |-> meta,
              provider |-> cfg])

\* logger.metrics = ...; logger.timespan = ...: the members are attached to
\* the backend's object, the timespan closure holds startTime
Augment(h, id, startTime) ==
    [h EXCEPT ![id] = @ @@ [metrics |-> Fn("metrics"),
                            timespan |-> Fn("timespan"),
                            startTime |-> startTime]]

\* startTime <= 0: false on NaN
LeqZero(v) == ~IsNaN(v) /\ v.n <= 0

GetLoggerRejectsEmptyAlias(h, cfg, lambdaName, alias, startTime) ==
    IF ~IsNonEmptyString(lambdaName)
    THEN [threw |-> TRUE, ex |-> Err("Invalid lambdaName specified (arg #1)"),
          heap |-> h, id |-> 0, ev |-> <<>>]
    ELSE IF ~IsNonEmptyString(alias)
    THEN [threw |-> TRUE, ex |-> Err("Invalid alias specified (arg #2)"),
          heap |-> h, id |-> 0, ev |-> <<>>]
    ELSE IF startTime.k # "number" \/ LeqZero(startTime)
    THEN [threw |-> TRUE, ex |-> Err("Invalid startTime specified (arg #3)"),
          heap |-> h, id |-> 0, ev |-> <<>>]
    ELSE LET meta == LoggerMeta(alias, ShortId(Len(h) + 1))
             a == BackendGetLogger(h, cfg, lambdaName, meta)
         IN  [threw |-> FALSE, ex |-> Undef,
              heap |-> Augment(a.heap, a.id, startTime), id |-> a.id,
              ev |-> <<Ev("_shortId.generate", "getLogger", <<>>),
                       Ev("_loggerProvider.getLogger", "getLogger",
                          <<lambdaName, meta>>)>>]

\* getLogger(lambdaName, alias, startTime): the logger object is allocated by
\* the backend under its current configuration; executionId is fresh
GetLogger(h, cfg, lambdaName, alias, startTime) ==
    IF ~IsNonEmptyString(lambdaName)
    THEN [threw |-> TRUE, ex |-> Err("Invalid lambdaName specified (arg #1)"),
          heap |-> h, id |-> 0, ev |-> <<>>]
    ELSE IF alias.k # "string"
    THEN [threw |-> TRUE, ex |-> Err("Invalid alias specified (arg #2)"),
          heap |-> h, id |-> 0, ev |-> <<>>]
    ELSE IF startTime.k # "number" \/ LeqZero(startTime)
    THEN [threw |-> TRUE, ex |-> Err("Invalid startTime specified (arg #3)"),
          heap |-> h, id |-> 0, ev |-> <<>>]
    ELSE LET meta == LoggerMeta(alias, ShortId(Len(h) + 1))
             a == BackendGetLogger(h, cfg, lambdaName, meta)
         IN  [threw |-> FALSE, ex |-> Undef,
              heap |-> Augment(a.heap, a.id, startTime), id |-> a.id,
              ev |-> <<Ev("_shortId.generate", "getLogger", <<>>),
                       Ev("_loggerProvider.getLogger", "getLogger",
                          <<lambdaName, meta>>)>>]

\* the own enumerable properties Object.assign copies from source: those of
\* an object, the elements of an array, the characters of a string, none of
\* undefined, null, a boolean, a number or a function
OwnProps(source) ==
    CASE source.k = "object" -> source.props
      [] source.k = "array" ->
            [p \in {ToString(j) : j \in 0..(Len(source.items) - 1)} |->
                source.items[1 + CHOOSE j \in 0..(Len(source.items) - 1) :
                                     ToString(j) = p]]
      [] source.k = "string" ->
            [p \in {ToString(j) : j \in 0..(Len(source.s) - 1)} |->
                LET at == 1 + CHOOSE j \in 0..(Len(source.s) - 1) :
                                  ToString(j) = p
                IN  Str(SubSeq(source.s, at, at))]
      [] OTHER -> EmptyObject

\* Object.assign(target, source)
Assign(target, source) ==
    LET props == OwnProps(source)
    IN  [p \in DOMAIN target \cup DOMAIN props |->
            IF p \in DOMAIN props THEN props[p] ELSE target[p]]

\* the objects a call of metrics or timespan can reach through its
\* arguments: the caller's props, when it is an object
CallerObjects(props) ==
    IF props.k \in {"object", "array"} THEN <<props>> ELSE <<>>

NewRecordInPlace(objects, content) ==
    IF objects = <<>>
    THEN [objects |-> <<Obj(content)>>, record |-> 1]
    ELSE [objects |-> [objects EXCEPT ![1] = Obj(content)], record |-> 1]

\* props = Object.assign({}, props, {...}): the properties are assigned to
\* the object the literal {} made, and that object is what info is given
NewRecord(objects, content) ==
    [objects |-> Append(objects, Obj(content)), record |-> Len(objects) + 1]

\* a - b on numbers
Minus(a, b) == IF IsNaN(a) \/ IsNaN(b) THEN NaN ELSE Num(a.n - b.n)

\* logger.info(arg), a backend method: it throws when the backend fails
LoggerInfo(mode, by, arg) ==
    IF mode \in {"infoThrows", "infoThrowsOnce"}
    THEN Throw(<<Ev("logger.info", by, <<arg>>)>>, BackendFailure)
    ELSE Ok(<<Ev("logger.info", by, <<arg>>)>>)

\* logger.error(ex, text), a backend method
LoggerError(mode, by, ex, text) ==
    IF mode = "errorThrows"
    THEN Throw(<<Ev("logger.error", by, <<ex, text>>)>>, BackendFailure)
    ELSE Ok(<<Ev("logger.error", by, <<ex, text>>)>>)

MetricsRecordPropsLast(metric, value, props) ==
    Assign(Assign(EmptyObject, Obj([metric |-> metric, value |-> value])),
           props)

\* the record logger.metrics(metric, value, props) logs
MetricsRecord(metric, value, props) ==
    Assign(Assign(EmptyObject, props),
           Obj([metric |-> metric, value |-> value]))

\* logger.metrics(metric, value, props)
LoggerMetrics(mode, by, metric, value, props) ==
    Then(Ok(<<Ev("logger.metrics", by, <<metric, value, props>>)>>),
         LoggerInfo(mode, "metrics", Obj(MetricsRecord(metric, value, props))))

TimespanRecordSinceEpoch(logger, metric, metricStartTime, props, clock) ==
    LET from == IF Truthy(metricStartTime) THEN metricStartTime ELSE Num(0)
    IN  Assign(Assign(EmptyObject, props),
               Obj([metric |-> metric, value |-> Minus(Num(clock), from)]))

\* the record logger.timespan(metric, metricStartTime, props) logs at clock
TimespanRecord(logger, metric, metricStartTime, props, clock) ==
    LET from == IF Truthy(metricStartTime) THEN metricStartTime
                ELSE logger.startTime
    IN  Assign(Assign(EmptyObject, props),
               Obj([metric |-> metric, value |-> Minus(Num(clock), from)]))

\* logger.timespan(metric, metricStartTime, props)
LoggerTimespan(logger, mode, by, metric, metricStartTime, props, clock) ==
    Then(Ok(<<Ev("logger.timespan", by, <<metric, metricStartTime, props>>)>>),
         LoggerInfo(mode, "timespan",
             Obj(TimespanRecord(logger, metric, metricStartTime, props, clock))))

----------------------------------------------------------------------------
(* LambdaConfig *)

\* deep-extend, as rc merges the loaded files over the defaults
RECURSIVE DeepExtend(_, _)
DeepExtend(target, source) ==
    [p \in DOMAIN target \cup DOMAIN source |->
        IF p \notin DOMAIN source THEN target[p]
        ELSE IF p \in DOMAIN target /\ target[p].k = "object"
                /\ source[p].k = "object"
             THEN Obj(DeepExtend(target[p].props, source[p].props))
             ELSE source[p]]

\* _rc(appName, defaults): the defaults overlaid with what the files hold
Rc(files, appName, defaults) == Obj(DeepExtend(defaults.props, files))

\* _dp.has(object, path)
RECURSIVE HasPath(_, _)
HasPath(v, segs) ==
    IF Len(segs) = 0 THEN TRUE
    ELSE IF v.k # "object" THEN FALSE
    ELSE IF Head(segs) \notin DOMAIN v.props THEN FALSE
    ELSE HasPath(v.props[Head(segs)], Tail(segs))

DpHas(object, path) == HasPath(object, Split(path, "."))

\* _dp.get(object, path)
RECURSIVE GetPath(_, _)
GetPath(v, segs) ==
    IF Len(segs) = 0 THEN v
    ELSE IF v.k # "object" THEN Undef
    ELSE IF Head(segs) \notin DOMAIN v.props THEN Undef
    ELSE GetPath(v.props[Head(segs)], Tail(segs))

DpGet(object, path) == GetPath(object, Split(path, "."))

\* new LambdaConfig(appName, alias)
LambdaConfigCtor(files, appName, alias) ==
    IF ~IsNonEmptyString(appName)
    THEN [threw |-> TRUE, ex |-> Err("Invalid appName specified (arg #1)"),
          object |-> NoObject, ev |-> <<>>]
    ELSE IF ~IsNonEmptyString(alias)
    THEN [threw |-> TRUE, ex |-> Err("Invalid alias specified (arg #2)"),
          object |-> NoObject, ev |-> <<>>]
    ELSE [threw |-> FALSE, ex |-> Undef,
          object |-> [k |-> "LambdaConfig",
                      config |-> Rc(files, appName, Obj(EmptyObject)),
                      alias |-> alias],
          ev |-> <<Ev("_rc", "LambdaConfig", <<appName, Obj(EmptyObject)>>)>>]

LambdaConfigGetNoPrefix(this, key) ==
    IF ~IsNonEmptyString(key)
    THEN [threw |-> FALSE, ex |-> Undef, value |-> Undef, ev |-> <<>>]
    ELSE LET path == key.s
             has == <<Ev("_dp.has", "get", <<this.config, Str(path)>>)>>
         IN  IF ~DpHas(this.config, path)
             THEN [threw |-> FALSE, ex |-> Undef, value |-> Undef, ev |-> has]
             ELSE [threw |-> FALSE, ex |-> Undef,
                   value |-> DpGet(this.config, path),
                   ev |-> has \o <<Ev("_dp.get", "get",
                                      <<this.config, Str(path)>>)>>]

\* config.get(key)
LambdaConfigGet(this, key) ==
    IF ~IsNonEmptyString(key)
    THEN [threw |-> FALSE, ex |-> Undef, value |-> Undef, ev |-> <<>>]
    ELSE LET path == this.alias.s \o "." \o key.s
             has == <<Ev("_dp.has", "get", <<this.config, Str(path)>>)>>
         IN  IF ~DpHas(this.config, path)
             THEN [threw |-> FALSE, ex |-> Undef, value |-> Undef, ev |-> has]
             ELSE [threw |-> FALSE, ex |-> Undef,
                   value |-> DpGet(this.config, path),
                   ev |-> has \o <<Ev("_dp.get", "get",
                                      <<this.config, Str(path)>>)>>]

----------------------------------------------------------------------------
(* Environment (lib/environment.js) *)

\* typeof v
TypeOf(v) ==
    CASE v.k \in {"null", "array", "Error"} -> "object"
      [] OTHER -> v.k

\* the map the constructor falls back to
DefaultEnvMap == [dev |-> Str("dev"), qa |-> Str("qa"), prod |-> Str("")]
DefaultSeparator == "-"

\* new Environment(env, envMap, separator): the fields of the instance.
\* this._envMap[env] converts env to a property key, so that undefined reads
\* the property named 'undefined'.  The field args is not a field of the
\* program: it keeps the arguments the instance was constructed with.
EnvironmentCtor(env, envMap, separator) ==
    LET env1 == IF env.k # "string" \/ Len(env.s) <= 0 THEN Undef ELSE env
        map == IF ~Truthy(envMap) \/ envMap.k = "array"
                  \/ TypeOf(envMap) # "object"
               THEN DefaultEnvMap
               ELSE OwnProps(envMap)
        sep == IF separator.k # "string" THEN Str(DefaultSeparator)
               ELSE separator
    IN  [threw |-> FALSE, ex |-> Undef, ev |-> <<>>,
         object |-> [k |-> "Environment",
                     _env |-> env1, _separator |-> sep, _envMap |-> map,
                     _envToken |-> Get(map, ToStr(env1)),
                     args |-> <<env, envMap, separator>>]]

\* get isValid()
IsValid(this) == this._envToken.k = "string"

\* the members of the class: the accessors env, separator and isValid and
\* the method getSuffixString
EnvironmentMembers == {"env", "separator", "isValid", "getSuffixString"}

\* this[name]: an accessor of the class, the method, a field of the
\* instance, or undefined
EnvironmentRead(this, name) ==
    LET value == CASE name = "env" -> this._env
                   [] name = "separator" -> this._separator
                   [] name = "isValid" -> Bool(IsValid(this))
                   [] name = "getSuffixString" -> Fn("getSuffixString")
                   [] name \in {"_env", "_separator", "_envToken"} ->
                         this[name]
                   [] name = "_envMap" -> Obj(this._envMap)
                   [] OTHER -> Undef
    IN  [threw |-> FALSE, ex |-> Undef, ev |-> <<>>, value |-> value]

\* getSuffixString(value)
GetSuffixString(this, value) ==
    IF value.k # "string"
    THEN [threw |-> TRUE, ex |-> Err("Invalid value specified (arg #1)"),
          ev |-> <<>>, value |-> Undef]
    ELSE IF ~IsValid(this)
    THEN [threw |-> FALSE, ex |-> Undef, ev |-> <<>>, value |-> Undef]
    ELSE LET separator == IF Len(this._envToken.s) > 0
                          THEN this._separator.s ELSE ""
         IN  [threw |-> FALSE, ex |-> Undef, ev |-> <<>>,
              value |-> Str(value.s \o separator \o this._envToken.s)]

----------------------------------------------------------------------------
(* HandlerWrapper: constructor and wrap() *)

\* new HandlerWrapper(appName)
Constructor(appName) ==
    IF ~IsNonEmptyString(appName)
    THEN [threw |-> TRUE, ex |-> Err("Invalid app name specified (arg #1)"),
          object |-> NoObject]
    ELSE [threw |-> FALSE, ex |-> Undef,
          object |-> [k |-> "HandlerWrapper", appName |-> appName]]

WrapAnyString(this, handler, lambdaName) ==
    IF handler.k # "function"
    THEN [threw |-> TRUE, ex |-> Err("Invalid handler specified (arg #1)"),
          object |-> NoObject]
    ELSE IF lambdaName.k # "string"
    THEN [threw |-> TRUE,
          ex |-> Err("Invalid lambda function name specified (arg #2)"),
          object |-> NoObject]
    ELSE [threw |-> FALSE, ex |-> Undef,
          object |-> [k |-> "wrapped", appName |-> this.appName,
                      handler |-> handler, lambdaName |-> lambdaName]]

\* wrapper.wrap(handler, lambdaName): the closure it returns
Wrap(this, handler, lambdaName) ==
    IF handler.k # "function"
    THEN [threw |-> TRUE, ex |-> Err("Invalid handler specified (arg #1)"),
          object |-> NoObject]
    ELSE IF ~IsNonEmptyString(lambdaName)
    THEN [threw |-> TRUE,
          ex |-> Err("Invalid lambda function name specified (arg #2)"),
          object |-> NoObject]
    ELSE [threw |-> FALSE, ex |-> Undef,
          object |-> [k |-> "wrapped", appName |-> this.appName,
                      handler |-> handler, lambdaName |-> lambdaName]]

----------------------------------------------------------------------------
(* The wrapped handler: (event, context, callback) => { ... } *)

NoThrow == [k |-> "nothrow"]

\* config.get(key) of the configuration module: throws on an undefined key
ConfigGet(cfg, key) ==
    IF key \in DOMAIN cfg
    THEN [ev |-> <<Ev("config.get", "wrapper", <<Str(key)>>)>>,
          threw |-> FALSE, ex |-> Undef, value |-> cfg[key]]
    ELSE [ev |-> <<Ev("config.get", "wrapper", <<Str(key)>>)>>,
          threw |-> TRUE,
          ex |-> Err("Configuration property \"" \o key \o "\" is not defined"),
          value |-> Undef]

\* what the configuration lookup of the wrapped handler is keyed by
ConfigLookup(alias) == [key |-> "log", alias |-> Undef]

InitLoggerCached(h, cfg, appName, logConfig, lambdaName, alias, lambdaStartTime) ==
    LET level == Get(logConfig, "level")
        ctor == LambdaLoggerCtor(cfg, appName, level)
        got == GetLogger(h, ctor.providerCfg, lambdaName, alias,
                         lambdaStartTime)
        ctorEv == <<Ev("new LambdaLogger", "_initLogger", <<appName, level>>)>>
        gotEv == <<Ev("getLogger", "_initLogger",
                      <<lambdaName, alias, lambdaStartTime>>)>>
        cached == {i \in 1..Len(h) : h[i].type = "logger"}
    IN  IF cached # {}
        THEN [ev |-> <<>>, threw |-> FALSE, ex |-> Undef,
              providerCfg |-> cfg, heap |-> h,
              id |-> CHOOSE i \in cached : \A j \in cached : i <= j]
        ELSE IF ctor.threw
        THEN [ev |-> ctorEv, threw |-> TRUE, ex |-> ctor.ex,
              providerCfg |-> ctor.providerCfg, heap |-> h, id |-> 0]
        ELSE IF got.threw
        THEN [ev |-> ctorEv \o gotEv, threw |-> TRUE, ex |-> got.ex,
              providerCfg |-> ctor.providerCfg, heap |-> h, id |-> 0]
        ELSE [ev |-> ctorEv \o gotEv, threw |-> FALSE, ex |-> Undef,
              providerCfg |-> ctor.providerCfg, heap |-> got.heap,
              id |-> got.id]

\* _initLogger(logConfig, lambdaName, alias, lambdaStartTime)
InitLogger(h, cfg, appName, logConfig, lambdaName, alias, lambdaStartTime) ==
    LET level == Get(logConfig, "level")
        ctor == LambdaLoggerCtor(cfg, appName, level)
        got == GetLogger(h, ctor.providerCfg, lambdaName, alias,
                         lambdaStartTime)
        ctorEv == <<Ev("new LambdaLogger", "_initLogger", <<appName, level>>)>>
        gotEv == <<Ev("getLogger", "_initLogger",
                      <<lambdaName, alias, lambdaStartTime>>)>>
    IN  IF ctor.threw
        THEN [ev |-> ctorEv, threw |-> TRUE, ex |-> ctor.ex,
              providerCfg |-> ctor.providerCfg, heap |-> h, id |-> 0]
        ELSE IF got.threw
        THEN [ev |-> ctorEv \o gotEv, threw |-> TRUE, ex |-> got.ex,
              providerCfg |-> ctor.providerCfg, heap |-> h, id |-> 0]
        ELSE [ev |-> ctorEv \o gotEv
                     \o <<Ev("console.info", "_initLogger",
                             <<Str("Logger initialized (" \o ToStr(level)
                                   \o ")")>>)>>,
              threw |-> FALSE, ex |-> Undef,
              providerCfg |-> ctor.providerCfg, heap |-> got.heap,
              id |-> got.id]

\* callback(...args)
Callback(by, args) == Ok(<<Ev("callback", by, args)>>)

ExecutionContextNoAlias(logger, alias, cfg) ==
    [type |-> "context", logger |-> logger, env |-> alias, alias |-> Undef,
     config |-> cfg]

\* the fourth argument of the user handler
ExecutionContext(logger, alias, cfg) ==
    [type |-> "context", logger |-> logger, env |-> alias, alias |-> alias,
     config |-> cfg]

\* what a handler may do after it returned: call the callback, or fail
Deferred == {"async", "fails"}

\* what the user handler does when called: it may call the callback at once,
\* and it returns or throws
UserHandler(behaviour, event, context, callback, ctx) ==
    LET called == <<Ev("handler", "wrapper",
                       <<event, context, callback, ctx>>)>>
        calls == IF behaviour.calls = "sync"
                 THEN Callback("handler", behaviour.cbArgs)
                 ELSE Ok(<<>>)
        ends == IF behaviour.throws = NoThrow THEN Ok(<<>>)
                ELSE Throw(<<>>, behaviour.throws)
    IN  Then(Ok(called), Then(calls, ends))

KeepWarmText ==
    "Keep warm request received. Actual lambda handler will not be invoked"

KeepWarmNoTimespan(logger, mode, callback, clock) ==
    Then(LoggerInfo(mode, "wrapper", Str(KeepWarmText)),
         Callback("wrapper", <<Null>>))

\* the keep warm branch of the try block
KeepWarm(logger, mode, callback, clock) ==
    Then(LoggerTimespan(logger, mode, "wrapper", Str("EXECUTION_TIME"),
                        Undef, Undef, clock),
    Then(LoggerInfo(mode, "wrapper", Str(KeepWarmText)),
         Callback("wrapper", <<Null>>)))

ErrorPrefix == "[Error] Unhandled error executing lambda. Details: "
UnhandledText ==
    "Unandled error thrown by lambda handler. This error must be handled within the lambda function handler."

ErrorMessageDuck(ex) ==
    IF ex.k = "Error" THEN ex.message
    ELSE IF ex.k = "object" /\ "message" \in DOMAIN ex.props
         THEN ToStr(ex.props.message)
         ELSE ToStr(ex)

\* `${message}` with message = (ex instanceof Error) ? ex.message : ex
ErrorMessage(ex) == IF ex.k = "Error" THEN ex.message ELSE ToStr(ex)

CatchBlockCallbackFirst(ex, logger, mode, callback, clock) ==
    Then(Callback("wrapper", <<Err(ErrorPrefix \o ErrorMessage(ex))>>),
    Then(LoggerError(mode, "wrapper", ex, Str(UnhandledText)),
         LoggerTimespan(logger, mode, "wrapper", Str("EXECUTION_TIME"),
                        Undef, Undef, clock)))

\* the catch block
CatchBlock(ex, logger, mode, callback, clock) ==
    Then(LoggerError(mode, "wrapper", ex, Str(UnhandledText)),
    Then(LoggerTimespan(logger, mode, "wrapper", Str("EXECUTION_TIME"),
                        Undef, Undef, clock),
         Callback("wrapper", <<Err(ErrorPrefix \o ErrorMessage(ex))>>)))

TryBlockRetries(in, logger, mode, ctx, clock) ==
    LET first == UserHandler(in.handler, in.event, in.context, in.callback,
                             ctx)
    IN  IF Truthy(Get(in.event, "__LAMBDA_KEEP_WARM"))
        THEN KeepWarm(logger, mode, in.callback, clock)
        ELSE IF first.threw
        THEN [first EXCEPT !.ev = first.ev \o first.ev]
        ELSE first

TryBlockReportsSilence(in, logger, mode, ctx, clock) ==
    IF Truthy(Get(in.event, "__LAMBDA_KEEP_WARM"))
    THEN KeepWarm(logger, mode, in.callback, clock)
    ELSE Then(UserHandler(in.handler, in.event, in.context, in.callback, ctx),
              IF in.handler.calls = "sync" THEN Ok(<<>>)
              ELSE Callback("wrapper",
                       <<Err("[Error] Lambda handler did not complete")>>))

TryBlockCompletes(in, logger, mode, ctx, clock) ==
    IF Truthy(Get(in.event, "__LAMBDA_KEEP_WARM"))
    THEN KeepWarm(logger, mode, in.callback, clock)
    ELSE Then(UserHandler(in.handler, in.event, in.context, in.callback, ctx),
              Callback("wrapper", <<Null>>))

\* the health of the backend once the statements that made the calls ev are
\* over: a backend that fails once has recovered when info was called
ModeAfter(mode, ev) ==
    IF mode = "infoThrowsOnce" /\ Calls(ev, "logger.info") # <<>> THEN "ok"
    ELSE mode

\* the try block; ctx is the object the literal { logger, env, alias, config }
\* evaluated to
TryBlock(in, logger, mode, ctx, clock) ==
    IF Truthy(Get(in.event, "__LAMBDA_KEEP_WARM"))
    THEN KeepWarm(logger, mode, in.callback, clock)
    ELSE UserHandler(in.handler, in.event, in.context, in.callback, ctx)

\* The wrapped handler, run to its return on process state g for the closure
\* w with the arguments in; d is the time that passes between the capture of
\* lambdaStartTime and the try block.  The result is the process state it
\* leaves and the record of what happened.
WrappedHandler(g, w, in, d) ==
    LET lambdaStartTime == Num(g.now)
        arn == Get(in.context, "invokedFunctionArn").s
        alias == AliasOfArn[arn]
        aliasEv == <<Ev("Date.now", "wrapper", <<lambdaStartTime>>),
                     Ev("_initAlias", "wrapper", <<Str(arn)>>),
                     Ev("console.info", "_initAlias",
                        <<Str("Lambda alias initialized (" \o alias.s
                              \o ")")>>)>>
        lookup == ConfigLookup(alias)
        requireEv == <<Ev("require", "wrapper", <<Str("config")>>)>>
        cfgGet == ConfigGet(g.config, lookup.key)
        init == InitLogger(g.heap, g.providerCfg, w.appName, cfgGet.value,
                           w.lambdaName, alias, lambdaStartTime)
        clock == g.now + d
        keepWarm == Truthy(Get(in.event, "__LAMBDA_KEEP_WARM"))
        ctx == IF keepWarm THEN [heap |-> init.heap, id |-> 0]
               ELSE Alloc(init.heap,
                          ExecutionContext(init.id, alias, g.config))
        logger == init.heap[init.id]
        ctxRef == IF keepWarm THEN Undef
                  ELSE [id |-> ctx.id] @@ ctx.heap[ctx.id]
        try == TryBlock(in, logger, g.backend, ctxRef, clock)
        catch == CatchBlock(try.ex, logger, ModeAfter(g.backend, try.ev),
                            in.callback, clock)
        base == [in |-> in, startTime |-> lambdaStartTime, alias |-> alias,
                 lookup |-> lookup, elapsed |-> d]
    IN  IF cfgGet.threw
        THEN [g |-> g,
              rec |-> base @@ [logger |-> 0, ctx |-> 0,
                               ev |-> aliasEv \o requireEv \o cfgGet.ev,
                               thrown |-> cfgGet.ex, pending |-> FALSE, late |-> <<>>]]
        ELSE IF init.threw
        THEN [g |-> [g EXCEPT !.providerCfg = init.providerCfg],
              rec |-> base @@ [logger |-> 0, ctx |-> 0,
                               ev |-> aliasEv \o requireEv \o cfgGet.ev
                                      \o init.ev,
                               thrown |-> init.ex, pending |-> FALSE, late |-> <<>>]]
        ELSE LET g2 == [g EXCEPT !.providerCfg = init.providerCfg,
                                 !.heap = ctx.heap,
                                 !.now = clock]
                 head == aliasEv \o requireEv \o cfgGet.ev \o init.ev
             IN  IF ~try.threw
                 THEN [g |-> g2,
                       rec |-> base @@
                           [logger |-> init.id, ctx |-> ctx.id,
                            ev |-> head \o try.ev,
                            thrown |-> NoThrow,
                            pending |-> ~keepWarm
                                        /\ in.handler.calls \in Deferred,
                            late |-> <<>>]]
                 ELSE [g |-> g2,
                       rec |-> base @@
                           [logger |-> init.id, ctx |-> ctx.id,
                            ev |-> head \o try.ev \o catch.ev,
                            thrown |-> IF catch.threw THEN catch.ex
                                       ELSE NoThrow,
                            pending |-> FALSE, late |-> <<>>]]

----------------------------------------------------------------------------
(* The legacy HandlerWrapper (lib/handler-wrapper.js) *)

LegacyInitEnvEmpty(arn) ==
    LET alias == At(Split(arn, ":"), AliasIndex)
    IN  IF alias = Undef \/ alias = Str(LATEST) THEN Str("") ELSE alias

\* _initEnv(arn): the value it returns and stores in process.env.NODE_ENV
LegacyInitEnv(arn) ==
    LET alias == At(Split(arn, ":"), AliasIndex)
    IN  IF alias = Undef \/ alias = Str(LATEST) THEN Str("na") ELSE alias

\* _initEnv on each ARN the invocations use, evaluated once
LegacyEnvOfArn == [arn \in AllArns |-> LegacyInitEnv(arn)]

\* _initLogger(logConfig, lambdaName, env): the provider is configured with
\* whatever level the configuration holds, the logger carries {env}
LegacyInitLogger(h, appName, logConfig, lambdaName, env) ==
    LET level == Get(logConfig, "level")
        cfg == [configured |-> TRUE, appName |-> appName, logLevel |-> level]
        meta == [env |-> env]
        a == BackendGetLogger(h, cfg, lambdaName, meta)
    IN  [ev |-> <<Ev("_loggerProvider.configure", "_initLogger",
                     <<[appName |-> appName, logLevel |-> level]>>),
                  Ev("_loggerProvider.getLogger", "_initLogger",
                     <<lambdaName, meta>>),
                  Ev("console.info", "_initLogger",
                     <<Str("Logger initialized (" \o ToStr(level) \o ")")>>)>>,
         providerCfg |-> cfg, heap |-> a.heap, id |-> a.id]

LegacyErrorPrefix == "[Error] Error executing lambda. Details: "

\* the fourth argument of the user handler
LegacyExecutionContext(logger, env, cfg) ==
    [type |-> "context", logger |-> logger, env |-> env, config |-> cfg]

\* The legacy wrapped handler, run to its return on process state g for the
\* closure w with the arguments in: the process state and NODE_ENV it
\* leaves, and the record of what happened.
LegacyWrappedHandler(g, w, in) ==
    LET arn == Get(in.context, "invokedFunctionArn").s
        env == LegacyEnvOfArn[arn]
        envEv == <<Ev("_initEnv", "wrapper", <<Str(arn)>>),
                   Ev("console.info", "_initEnv",
                      <<Str("Configuration initialized (" \o env.s \o ")")>>),
                   Ev("require", "wrapper", <<Str("config")>>)>>
        cfgGet == ConfigGet(g.config, "log")
        init == LegacyInitLogger(g.heap, w.appName, cfgGet.value,
                                 w.lambdaName, env)
        ctx == Alloc(init.heap,
                     LegacyExecutionContext(init.id, env, g.config))
        ctxRef == [id |-> ctx.id] @@ ctx.heap[ctx.id]
        try == UserHandler(in.handler, in.event, in.context, in.callback,
                           ctxRef)
        catch == Callback("wrapper",
                     <<Err(LegacyErrorPrefix \o ErrorMessage(try.ex))>>)
        base == [in |-> in, env |-> env]
    IN  IF cfgGet.threw
        THEN [g |-> g, nodeEnv |-> env,
              rec |-> base @@ [logger |-> 0, ctx |-> 0,
                               ev |-> envEv \o cfgGet.ev,
                               thrown |-> cfgGet.ex, pending |-> FALSE,
                               late |-> <<>>]]
        ELSE [g |-> [g EXCEPT !.providerCfg = init.providerCfg,
                              !.heap = ctx.heap],
              nodeEnv |-> env,
              rec |-> base @@
                  [logger |-> init.id, ctx |-> ctx.id,
                   ev |-> envEv \o cfgGet.ev \o init.ev \o try.ev
                          \o (IF try.threw THEN catch.ev ELSE <<>>),
                   thrown |-> NoThrow,
                   pending |-> ~try.threw /\ in.handler.calls \in Deferred,
                   late |-> <<>>]]

----------------------------------------------------------------------------
(* Inputs *)

AppNames == {"app"}
LambdaNames == {"fn"}

Context(arn) == [invokedFunctionArn |-> Str(arn)]

\* values of event.__LAMBDA_KEEP_WARM; the first event has no such key
Events == {EmptyObject}
          \cup {[x \in {"__LAMBDA_KEEP_WARM"} |-> v] :
                   v \in {Bool(TRUE), Bool(FALSE), Num(1)}}

\* what the user handler does
Behaviour(calls, cbArgs, throws) ==
    [calls |-> calls, cbArgs |-> cbArgs, throws |-> throws]

Returns == Behaviour("none", <<>>, NoThrow)
Thrown == {Err("boom"), Str("boom"), Num(42), Undef, Obj([message |-> Str("boom")])}

Behaviours ==
    {Returns,
     Behaviour("sync", <<Null, Str("done")>>, NoThrow),
     Behaviour("async", <<Null, Str("done")>>, NoThrow),
     Behaviour("fails", <<>>, NoThrow)}
    \cup {Behaviour("none", <<>>, v) : v \in Thrown}
    \cup {Behaviour("sync", <<Null, Str("done")>>, Err("boom")),
          Behaviour("sync", <<Err("failed")>>, Err("boom"))}

TheCallback == Fn("callback")

Input(arn, event, behaviour) ==
    [event |-> event, context |-> Context(arn), callback |-> TheCallback,
     handler |-> behaviour]

\* every ARN with and without the keep warm marker, every marker value, and
\* every handler behaviour
Inputs ==
    {Input(a, e, Returns) :
        a \in Arns,
        e \in {EmptyObject, [x \in {"__LAMBDA_KEEP_WARM"} |-> Bool(TRUE)]}}
    \cup {Input(FunctionArn \o ":dev", e, Returns) : e \in Events}
    \cup {Input(FunctionArn \o ":dev", EmptyObject, b) : b \in Behaviours}

\* the process: its configuration and the health of the logging backend
GoodConfig == [log |-> [level |-> Str("info")]]
Processes ==
    {<<c, "ok">> : c \in {GoodConfig, [log |-> EmptyObject], EmptyObject}}
    \cup {<<GoodConfig, m>> :
             m \in {"infoThrows", "errorThrows", "infoThrowsOnce"}}

----------------------------------------------------------------------------
(* The process: invocations of the wrapped handler *)

G == [config |-> config, backend |-> backend, providerCfg |-> providerCfg,
      heap |-> heap, now |-> now]

InitProcess ==
    /\ \E p \in Processes : config = p[1] /\ backend = p[2]
    /\ providerCfg = NotConfigured
    /\ heap = <<>>
    /\ now = 1
    /\ hist = <<>>

InitWrapped ==
    /\ \E a \in AppNames : wrapper = Constructor(Str(a)).object
    /\ \E n \in LambdaNames :
          wrapped = Wrap(wrapper, Fn("handler"), Str(n)).object
    /\ lastCall = NoObject

InitAliasIdle == arnSegs = <<"">> /\ arnArg = "" /\ aliasRet = NoObject

\* no LambdaLogger, LambdaConfig or Environment made by hand, NODE_ENV not
\* set
InitLibIdle ==
    /\ factory = NoObject /\ lambdaConfig = NoObject /\ nodeEnv = Undef
    /\ environment = NoObject

Init == InitWrapped /\ InitProcess /\ InitAliasIdle /\ InitLibIdle

\* the runtime invokes the wrapped handler
Invoke(in, d) ==
    /\ wrapped.k = "wrapped"
    /\ Len(hist) < MaxInv
    /\ now + d <= MaxTime
    /\ LET r == WrappedHandler(G, wrapped, in, d)
       IN  /\ providerCfg' = r.g.providerCfg
           /\ heap' = r.g.heap
           /\ now' = r.g.now
           /\ hist' = Append(hist, r.rec)
    /\ UNCHANGED <<config, backend>>
    /\ UNCHANGED setupVars
    /\ UNCHANGED aliasVars
    /\ UNCHANGED libVars

\* a handler that returned without calling back calls the callback later
LateCallback(i) ==
    /\ i \in 1..Len(hist)
    /\ hist[i].pending
    /\ hist[i].in.handler.calls = "async"
    /\ hist' = [hist EXCEPT
                   ![i].pending = FALSE,
                   ![i].late = @ \o Callback("handler",
                                           hist[i].in.handler.cbArgs).ev]
    /\ UNCHANGED <<config, backend, providerCfg, heap, now>>
    /\ UNCHANGED setupVars
    /\ UNCHANGED aliasVars
    /\ UNCHANGED libVars

\* a handler that returned fails later, outside the wrapped handler: the
\* try block is over, the exception goes to the runtime
LateFailure(i) ==
    /\ i \in 1..Len(hist)
    /\ hist[i].pending
    /\ hist[i].in.handler.calls = "fails"
    /\ hist' = [hist EXCEPT
                   ![i].pending = FALSE,
                   ![i].late = @ \o <<Ev("uncaughtException", "handler",
                                         <<Err("late")>>)>>]
    /\ UNCHANGED <<config, backend, providerCfg, heap, now>>
    /\ UNCHANGED setupVars
    /\ UNCHANGED aliasVars
    /\ UNCHANGED libVars

Next ==
    \/ \E in \in Inputs, d \in 0..MaxTime : Invoke(in, d)
    \/ \E i \in 1..MaxInv : LateCallback(i)
    \/ \E i \in 1..MaxInv : LateFailure(i)

Spec == Init /\ [][Next]_vars

----------------------------------------------------------------------------
(* The process under the legacy wrapper *)

\* NODE_ENV before the first invocation: not set, or set by the deployment
InitNodeEnv ==
    /\ factory = NoObject /\ lambdaConfig = NoObject
    /\ environment = NoObject
    /\ nodeEnv \in {Undef, Str("production")}

\* the runtime invokes the legacy wrapped handler
LegacyInvoke(in) ==
    /\ wrapped.k = "wrapped"
    /\ Len(hist) < MaxInv
    /\ LET r == LegacyWrappedHandler(G, wrapped, in)
       IN  /\ providerCfg' = r.g.providerCfg
           /\ heap' = r.g.heap
           /\ nodeEnv' = r.nodeEnv
           /\ hist' = Append(hist, r.rec)
    /\ UNCHANGED <<config, backend, now>>
    /\ UNCHANGED <<factory, lambdaConfig, environment>>
    /\ UNCHANGED setupVars
    /\ UNCHANGED aliasVars

NextLegacy ==
    \/ \E in \in Inputs : LegacyInvoke(in)
    \/ \E i \in 1..MaxInv : LateCallback(i)
    \/ \E i \in 1..MaxInv : LateFailure(i)

InitLegacy == InitWrapped /\ InitProcess /\ InitAliasIdle /\ InitNodeEnv

SpecLegacy == InitLegacy /\ [][NextLegacy]_vars

----------------------------------------------------------------------------
(* Both wrappers in one process: the same handler wrapped by the current    *)
(* and by the legacy HandlerWrapper, invoked on the same ARNs               *)

\* an invocation per ARN, of a handler that returns
BothInputs == {Input(a, EmptyObject, Returns) : a \in AllArns}

NextBoth ==
    \/ \E in \in BothInputs : Invoke(in, 0)
    \/ \E in \in BothInputs : LegacyInvoke(in)

InitBoth == InitWrapped /\ InitProcess /\ InitAliasIdle /\ InitNodeEnv

SpecBoth == InitBoth /\ [][NextBoth]_vars

----------------------------------------------------------------------------
(* _initAlias on its own: every ARN of up to MaxSegs segments *)

Segments == {"", "dev", LATEST}

InitArn ==
    /\ arnSegs \in UNION {[1..n -> Segments] : n \in 1..MaxSegs}
    /\ arnArg = Join(arnSegs, ":")
    /\ aliasRet = NoObject

CallInitAlias ==
    /\ aliasRet = NoObject
    /\ aliasRet' = InitAlias(arnArg)
    /\ UNCHANGED <<arnSegs, arnArg>>
    /\ UNCHANGED setupVars
    /\ UNCHANGED processVars
    /\ UNCHANGED libVars

InitIdleProcess ==
    /\ config = GoodConfig /\ backend = "ok"
    /\ providerCfg = NotConfigured
    /\ heap = <<>>
    /\ now = 1
    /\ hist = <<>>

InitAliasCall == InitWrapped /\ InitIdleProcess /\ InitArn /\ InitLibIdle

NextAlias == CallInitAlias

SpecAlias == InitAliasCall /\ [][NextAlias]_vars

----------------------------------------------------------------------------
(* Set up: new HandlerWrapper(appName) and wrapper.wrap(handler, lambdaName) *)

Values ==
    {Undef, Null, Bool(TRUE), Bool(FALSE), Num(0), Num(123), Str(""),
     Str("app"), Str("fn"), Obj(EmptyObject), Arr(<<>>), Fn("handler")}

InitSetup == wrapper = NoObject /\ wrapped = NoObject /\ lastCall = NoObject

Construct(appName) ==
    /\ LET r == Constructor(appName)
       IN  /\ lastCall' = [op |-> "constructor", args |-> <<appName>>,
                           threw |-> r.threw, ex |-> r.ex,
                           object |-> r.object]
           /\ wrapper' = IF r.threw THEN wrapper ELSE r.object
    /\ UNCHANGED wrapped
    /\ UNCHANGED processVars
    /\ UNCHANGED aliasVars
    /\ UNCHANGED libVars

CallWrap(handler, lambdaName) ==
    /\ wrapper # NoObject
    /\ LET r == Wrap(wrapper, handler, lambdaName)
       IN  /\ lastCall' = [op |-> "wrap", args |-> <<handler, lambdaName>>,
                           threw |-> r.threw, ex |-> r.ex,
                           object |-> r.object]
           /\ wrapped' = IF r.threw THEN wrapped ELSE r.object
    /\ UNCHANGED wrapper
    /\ UNCHANGED processVars
    /\ UNCHANGED aliasVars
    /\ UNCHANGED libVars

NextSetup ==
    \/ \E v \in Values : Construct(v)
    \/ \E h \in Values, n \in Values : CallWrap(h, n)

InitUnwrapped ==
    InitSetup /\ InitIdleProcess /\ InitAliasIdle /\ InitLibIdle

SpecSetup == InitUnwrapped /\ [][NextSetup]_vars

----------------------------------------------------------------------------
(* LambdaLogger on its own: new LambdaLogger, getLogger, then metrics and   *)
(* timespan on the loggers it returned                                      *)

MaxLoggers == 2     \* loggers obtained from getLogger

\* every kind of value but a string
NotStrings ==
    {Undef, Null, Bool(TRUE), Num(0), Num(123), Obj(EmptyObject), Arr(<<>>),
     Fn("handler")}

\* start times: not numbers, numbers that are not positive, clock readings,
\* and NaN
StartTimes ==
    {Undef, Null, Bool(TRUE), Str("1"), Num(-1), Num(0), Num(1), Num(2), NaN}

\* each argument ranges over every kind of value, the empty string and a
\* non-empty string while the others are valid; then several invalid at once
LoggerCtorArgs ==
    {<<v, Str("info")>> : v \in NotStrings \cup {Str(""), Str("app")}}
    \cup {<<Str("app"), v>> : v \in NotStrings \cup {Str(""), Str("info")}}
    \cup {<<Undef, Undef>>}

GetLoggerArgs ==
    {<<v, Str("dev"), Num(1)>> : v \in NotStrings \cup {Str(""), Str("fn")}}
    \cup {<<Str("fn"), v, Num(1)>> : v \in NotStrings \cup {Str(""), Str("dev")}}
    \cup {<<Str("fn"), Str("dev"), t>> : t \in StartTimes}
    \cup {<<Undef, Undef, Undef>>, <<Str("fn"), Undef, Undef>>}

\* the props argument of metrics and timespan: omitted, null, mappings (one
\* of them with keys metric and value of its own), a string, an array
Props ==
    {Undef, Null, Obj(EmptyObject),
     Obj([prop1 |-> Str("a"), prop2 |-> Num(2)]),
     Obj([metric |-> Str("other"), value |-> Num(0), prop1 |-> Str("a")]),
     Str("ab"), Arr(<<Num(9)>>)}

MetricsArgs ==
    {<<Str("M"), Num(7), p>> : p \in Props} \cup {<<Str("M"), Undef, Undef>>}

\* the reference start time of timespan: omitted, null, 0, clock readings
TimespanArgs ==
    {<<Str("M"), t, p>> :
        t \in {Undef, Null, Num(0), Num(1), Num(2)},
        p \in {Undef, Obj([metric |-> Str("other"), value |-> Num(0),
                           prop1 |-> Str("a")])}}

TheLambdaLogger == [k |-> "LambdaLogger"]
Ref(id) == [k |-> "ref", id |-> id]

\* what a call of the library did: its arguments, the calls it made, what it
\* threw or returned, and the clock it read
Call(op, args, r, object, clock) ==
    [op |-> op, args |-> args, threw |-> r.threw, ex |-> r.ex,
     object |-> IF r.threw THEN NoObject ELSE object,
     ev |-> r.ev, clock |-> clock]

NewLambdaLogger(args) ==
    /\ LET r == LambdaLoggerCtor(providerCfg, args[1], args[2])
       IN  /\ lastCall' = Call("new LambdaLogger", args, r, TheLambdaLogger,
                               now)
           /\ factory' = IF r.threw THEN factory ELSE TheLambdaLogger
           /\ providerCfg' = r.providerCfg
    /\ UNCHANGED <<wrapper, wrapped, config, backend, heap, now, hist>>
    /\ UNCHANGED <<lambdaConfig, nodeEnv, environment>>
    /\ UNCHANGED aliasVars

CallGetLogger(args) ==
    /\ factory # NoObject
    /\ Len(heap) < MaxLoggers
    /\ LET r == GetLogger(heap, providerCfg, args[1], args[2], args[3])
       IN  /\ lastCall' = Call("getLogger", args, r, Ref(r.id), now)
           /\ heap' = r.heap
    /\ UNCHANGED <<wrapper, wrapped, config, backend, providerCfg, now, hist>>
    /\ UNCHANGED libVars
    /\ UNCHANGED aliasVars

CallMetrics(id, args) ==
    /\ id \in 1..Len(heap)
    /\ LET r == LoggerMetrics(backend, "caller", args[1], args[2], args[3])
           o == NewRecord(CallerObjects(args[3]),
                          MetricsRecord(args[1], args[2], args[3]))
       IN  lastCall' = Call("metrics", args, r, Ref(id), now)
                           @@ [objects |-> o.objects, record |-> o.record]
    /\ UNCHANGED <<wrapper, wrapped>>
    /\ UNCHANGED processVars
    /\ UNCHANGED libVars
    /\ UNCHANGED aliasVars

\* d is the time that passes between the Date.now() of timespan and its
\* return
CallTimespan(id, args, d) ==
    /\ id \in 1..Len(heap)
    /\ now + d <= MaxTime
    /\ LET r == LoggerTimespan(heap[id], backend, "caller",
                               args[1], args[2], args[3], now)
           o == NewRecord(CallerObjects(args[3]),
                          TimespanRecord(heap[id], args[1], args[2], args[3],
                                         now))
       IN  lastCall' = Call("timespan", args, r, Ref(id), now)
                           @@ [objects |-> o.objects, record |-> o.record]
    /\ now' = now + d
    /\ UNCHANGED <<wrapper, wrapped, config, backend, providerCfg, heap, hist>>
    /\ UNCHANGED libVars
    /\ UNCHANGED aliasVars

\* the clock advances between two calls
Tick ==
    /\ now < MaxTime
    /\ now' = now + 1
    /\ UNCHANGED <<config, backend, providerCfg, heap, hist>>
    /\ UNCHANGED setupVars
    /\ UNCHANGED libVars
    /\ UNCHANGED aliasVars

NextLogger ==
    \/ \E a \in LoggerCtorArgs : NewLambdaLogger(a)
    \/ \E a \in GetLoggerArgs : CallGetLogger(a)
    \/ \E id \in 1..MaxLoggers, a \in MetricsArgs : CallMetrics(id, a)
    \/ \E id \in 1..MaxLoggers, a \in TimespanArgs, d \in 0..1 :
          CallTimespan(id, a, d)
    \/ Tick

InitLoggerIdle ==
    InitSetup /\ InitIdleProcess /\ InitAliasIdle /\ InitLibIdle

SpecLogger == InitLoggerIdle /\ [][NextLogger]_vars

----------------------------------------------------------------------------
(* LambdaConfig on its own: new LambdaConfig, then get *)

\* what the configuration files hold: nothing, or a section per alias next
\* to properties outside every section
NoFiles == EmptyObject
AliasFiles ==
    [dev |-> Obj([log |-> Obj([level |-> Str("debug")]),
                  name |-> Str("devName")]),
     prod |-> Obj([log |-> Obj([level |-> Str("error")])]),
     log |-> Obj([level |-> Str("info")]),
     only |-> Str("top")]

ConfigCtorArgs ==
    {<<v, Str("dev")>> : v \in NotStrings \cup {Str(""), Str("app")}}
    \cup {<<Str("app"), v>> :
             v \in NotStrings \cup {Str(""), Str("dev"), Str("prod"), Str("qa")}}
    \cup {<<Undef, Undef>>}

\* keys: not strings, empty, present and absent paths of one and two
\* segments, a path through a string, paths that exist outside the section
Keys ==
    NotStrings
    \cup {Str(""), Str("log"), Str("log.level"), Str("name"), Str("missing"),
          Str("log.missing"), Str("name.x"), Str("only"), Str("prod.log"),
          Str("dev.name")}

InitFiles ==
    /\ config \in {NoFiles, AliasFiles}
    /\ backend = "ok"
    /\ providerCfg = NotConfigured
    /\ heap = <<>>
    /\ now = 1
    /\ hist = <<>>

NewLambdaConfig(args) ==
    /\ LET r == LambdaConfigCtor(config, args[1], args[2])
       IN  /\ lastCall' = Call("new LambdaConfig", args, r, r.object, now)
           /\ lambdaConfig' = IF r.threw THEN lambdaConfig ELSE r.object
    /\ UNCHANGED <<wrapper, wrapped>>
    /\ UNCHANGED processVars
    /\ UNCHANGED <<factory, nodeEnv, environment>>
    /\ UNCHANGED aliasVars

CallGet(key) ==
    /\ lambdaConfig # NoObject
    /\ LET r == LambdaConfigGet(lambdaConfig, key)
       IN  lastCall' = Call("get", <<key>>, r, r.value, now)
    /\ UNCHANGED <<wrapper, wrapped>>
    /\ UNCHANGED processVars
    /\ UNCHANGED libVars
    /\ UNCHANGED aliasVars

NextConfig ==
    \/ \E a \in ConfigCtorArgs : NewLambdaConfig(a)
    \/ \E key \in Keys : CallGet(key)

InitConfigIdle == InitSetup /\ InitFiles /\ InitAliasIdle /\ InitLibIdle

SpecConfig == InitConfigIdle /\ [][NextConfig]_vars

----------------------------------------------------------------------------
(* Environment on its own: new Environment, then reads of its members and   *)
(* getSuffixString                                                          *)

\* env: not a string, empty, the default environments, environments of the
\* custom maps, and the text 'undefined'
EnvStrings ==
    {Undef, Null, Num(0), Str(""), Str("dev"), Str("qa"), Str("prod"),
     Str("foo"), Str("baz"), Str("undefined")}

\* envMap: omitted, not a map, and custom maps: one with an empty token,
\* one with a token that is no string, one with a key named 'undefined'
EnvMaps ==
    {Undef, Null, Arr(<<Str("dev")>>), Str("dev"),
     Obj([foo |-> Str("foo"), bar |-> Str("bar"), baz |-> Str("")]),
     Obj([dev |-> Str("d"), qa |-> Num(1)]),
     Obj([undefined |-> Str("x"), dev |-> Str("dev")])}

\* separator: omitted, or a string of its own
Separators == {Undef, Str("_")}

EnvironmentArgs ==
    {<<e, map, sep>> : e \in EnvStrings, map \in EnvMaps, sep \in Separators}

\* what is read of an instance: its members and the token
EnvironmentNames == EnvironmentMembers \cup {"token"}

\* arguments of getSuffixString
SuffixValues ==
    {Undef, Null, Num(1), Obj(EmptyObject), Str(""), Str("foo")}

NewEnvironment(args) ==
    /\ LET r == EnvironmentCtor(args[1], args[2], args[3])
       IN  /\ lastCall' = Call("new Environment", args, r, r.object, now)
           /\ environment' = r.object
    /\ UNCHANGED <<wrapper, wrapped>>
    /\ UNCHANGED processVars
    /\ UNCHANGED <<factory, lambdaConfig, nodeEnv>>
    /\ UNCHANGED aliasVars

ReadMember(name) ==
    /\ environment # NoObject
    /\ LET r == EnvironmentRead(environment, name)
       IN  lastCall' = Call("read", <<Str(name)>>, r, r.value, now)
    /\ UNCHANGED <<wrapper, wrapped>>
    /\ UNCHANGED processVars
    /\ UNCHANGED libVars
    /\ UNCHANGED aliasVars

CallGetSuffixString(value) ==
    /\ environment # NoObject
    /\ LET r == GetSuffixString(environment, value)
       IN  lastCall' = Call("getSuffixString", <<value>>, r, r.value, now)
    /\ UNCHANGED <<wrapper, wrapped>>
    /\ UNCHANGED processVars
    /\ UNCHANGED libVars
    /\ UNCHANGED aliasVars

NextEnvironment ==
    \/ \E a \in EnvironmentArgs : NewEnvironment(a)
    \/ \E name \in EnvironmentNames : ReadMember(name)
    \/ \E v \in SuffixValues : CallGetSuffixString(v)

InitEnvironmentIdle ==
    InitSetup /\ InitIdleProcess /\ InitAliasIdle /\ InitLibIdle

SpecEnvironment == InitEnvironmentIdle /\ [][NextEnvironment]_vars

----------------------------------------------------------------------------
(* Reading an invocation record *)

Invocations == 1..Len(hist)

\* everything that happened in the invocation so far
Happened(r) == r.ev \o r.late

HandlerCalls(r) == Calls(Happened(r), "handler")
CallbackCalls(r) == Calls(Happened(r), "callback")
GuardCallbacks(r) == CallsBy(Happened(r), "callback", "wrapper")

\* the event carries a truthy __LAMBDA_KEEP_WARM
KeepWarmEvent(r) ==
    /\ "__LAMBDA_KEEP_WARM" \in DOMAIN r.in.event
    /\ r.in.event["__LAMBDA_KEEP_WARM"] \in {Bool(TRUE), Num(1)}

\* alias, configuration and logger were set up, and the logging backend works
Initialised(r) == r.logger # 0
Healthy(r) == Initialised(r) /\ backend = "ok"

\* the alias of an ARN, read off its text
QualifierOf(arn) ==
    CASE arn = FunctionArn -> Str("")
      [] arn = FunctionArn \o ":dev" -> Str("dev")
      [] arn = FunctionArn \o ":$LATEST" -> Str("")

ResolvedAlias(r) == QualifierOf(r.in.context.invokedFunctionArn.s)

----------------------------------------------------------------------------
(* C1: _initAlias returns '' for an ARN with fewer than 8 colon separated   *)
(* segments or whose segment 7 is '$LATEST', and segment 7 verbatim         *)
(* otherwise, whatever follows segment 7.                                   *)

C1_AliasResolution ==
    aliasRet # NoObject =>
        aliasRet = IF Len(arnSegs) < 8 THEN Str("")
                   ELSE IF arnSegs[8] = "$LATEST" THEN Str("")
                   ELSE Str(arnSegs[8])

C1_Witness ==
    /\ Len(arnSegs) = 9 /\ arnSegs[8] = "dev" /\ arnSegs[9] = "$LATEST"
    /\ aliasRet = Str("dev")

----------------------------------------------------------------------------
(* C2: within one invocation the alias used for the configuration lookup,   *)
(* the alias and env of the logger metadata and the alias and env of the    *)
(* execution context are all the alias resolved from the invocation's ARN.  *)

C2_OneAlias ==
    \A i \in Invocations :
        LET r == hist[i]
        IN  Initialised(r) =>
                /\ r.alias = ResolvedAlias(r)
                /\ r.lookup.alias = r.alias
                /\ heap[r.logger].meta.alias = r.alias
                /\ heap[r.logger].meta.env = r.alias
                /\ \A c \in 1..Len(HandlerCalls(r)) :
                      /\ HandlerCalls(r)[c].args[4].alias = r.alias
                      /\ HandlerCalls(r)[c].args[4].env = r.alias

----------------------------------------------------------------------------
(* C3: an invocation without a truthy keep warm marker whose handler        *)
(* returns normally calls the handler exactly once with the event, context  *)
(* and callback it received and a fourth argument {logger, env, alias,      *)
(* config}: the logger and configuration of this invocation, and            *)
(* alias = env = the alias resolved from the ARN.                           *)

C3_HandlerCalledOnce ==
    \A i \in Invocations :
        LET r == hist[i]
        IN  (~KeepWarmEvent(r) /\ Initialised(r)
                /\ r.in.handler.throws = NoThrow) =>
                /\ Len(HandlerCalls(r)) = 1
                /\ LET a == HandlerCalls(r)[1].args
                   IN  /\ a[1] = r.in.event
                       /\ a[2] = r.in.context
                       /\ a[3] = r.in.callback
                       /\ DOMAIN a[4] =
                              {"id", "type", "logger", "env", "alias", "config"}
                       /\ a[4].logger = r.logger
                       /\ heap[a[4].logger].type = "logger"
                       /\ heap[a[4].logger].startTime = r.startTime
                       /\ a[4].config = config
                       /\ a[4].alias = ResolvedAlias(r)
                       /\ a[4].env = ResolvedAlias(r)

C3_Witness ==
    \E i \in Invocations :
        /\ ~KeepWarmEvent(hist[i])
        /\ hist[i].in.handler = Returns
        /\ Len(HandlerCalls(hist[i])) = 1
        /\ HandlerCalls(hist[i])[1].args[4].alias = Str("dev")

----------------------------------------------------------------------------
(* C4: on a truthy __LAMBDA_KEEP_WARM the wrapped handler never calls the   *)
(* user handler; with its collaborators working it calls the callback       *)
(* exactly once, with (null) and no data, and emits exactly one             *)
(* timespan('EXECUTION_TIME') metric record and one informational line.     *)

C4_KeepWarm ==
    \A i \in Invocations :
        LET r == hist[i]
        IN  KeepWarmEvent(r) =>
                /\ HandlerCalls(r) = <<>>
                /\ Healthy(r) =>
                      /\ CallbackCalls(r) = <<Ev("callback", "wrapper", <<Null>>)>>
                      /\ Len(Calls(Happened(r), "logger.timespan")) = 1
                      /\ Calls(Happened(r), "logger.timespan")[1].args[1]
                            = Str("EXECUTION_TIME")
                      /\ Len(CallsBy(Happened(r), "logger.info", "timespan")) = 1
                      /\ Len(CallsBy(Happened(r), "logger.info", "wrapper")) = 1
                      /\ Calls(Happened(r), "logger.error") = <<>>

C4_Witness ==
    \E i \in Invocations :
        /\ hist[i].in.event = [x \in {"__LAMBDA_KEEP_WARM"} |-> Num(1)]
        /\ Healthy(hist[i])
        /\ Len(CallbackCalls(hist[i])) = 1

----------------------------------------------------------------------------
(* C5: for a handler that throws synchronously the callback is invoked      *)
(* exactly once in the invocation, with an error, after exactly one         *)
(* logger.error call and then one EXECUTION_TIME timespan record.           *)

HandlerThrew(r) ==
    ~KeepWarmEvent(r) /\ Healthy(r) /\ r.in.handler.throws # NoThrow

\* logger.error, then the timespan, then the guard's callback with an Error
FailureReported(r) ==
    /\ Len(GuardCallbacks(r)) = 1
    /\ Len(GuardCallbacks(r)[1].args) = 1
    /\ GuardCallbacks(r)[1].args[1].k = "Error"
    /\ Len(Calls(Happened(r), "logger.error")) = 1
    /\ Len(Calls(Happened(r), "logger.timespan")) = 1
    /\ Calls(Happened(r), "logger.timespan")[1].args[1] = Str("EXECUTION_TIME")
    /\ LET e == Happened(r)
           last == Len(e)
       IN  /\ e[last].op = "callback" /\ e[last].by = "wrapper"
           /\ First(e, "logger.error") < First(e, "logger.timespan")
           /\ First(e, "logger.timespan") < last

----------------------------------------------------------------------------
(* C6: when the handler throws v the callback gets a new Error whose        *)
(* message is the fixed prefix followed by v.message for an Error instance  *)
(* and by the string form of v otherwise; logger.error gets v itself.       *)

StringForm(v) ==
    CASE v = Err("boom") -> "boom"
      [] v = Str("boom") -> "boom"
      [] v = Num(42) -> "42"
      [] v = Undef -> "undefined"
      [] v = Obj([message |-> Str("boom")]) -> "[object Object]"

C6_FailureMessage ==
    \A i \in Invocations :
        LET r == hist[i]
            v == r.in.handler.throws
        IN  HandlerThrew(r) =>
                /\ GuardCallbacks(r)[1].args =
                      <<Err("[Error] Unhandled error executing lambda. Details: "
                            \o StringForm(v))>>
                /\ Calls(Happened(r), "logger.error")[1].args[1] = v

C6_Witness ==
    \E i \in Invocations :
        /\ HandlerThrew(hist[i])
        /\ hist[i].in.handler.throws = Obj([message |-> Str("boom")])
        /\ GuardCallbacks(hist[i])[1].args[1].message =
              "[Error] Unhandled error executing lambda. Details: [object Object]"

----------------------------------------------------------------------------
(* C7: when the event is not a keep warm event and the handler returns      *)
(* without throwing, the guard never invokes the callback: every callback   *)
(* invocation is the handler's.                                             *)

C7_SuccessPath ==
    \A i \in Invocations :
        LET r == hist[i]
        IN  (~KeepWarmEvent(r) /\ r.in.handler.throws = NoThrow) =>
                /\ GuardCallbacks(r) = <<>>
                /\ \A c \in 1..Len(CallbackCalls(r)) :
                      CallbackCalls(r)[c].by = "handler"

C7_Witness ==
    \E i \in Invocations :
        /\ ~KeepWarmEvent(hist[i])
        /\ hist[i].in.handler.throws = NoThrow
        /\ hist[i].in.handler.calls = "sync"
        /\ Len(HandlerCalls(hist[i])) = 1
        /\ Len(CallbackCalls(hist[i])) = 1

----------------------------------------------------------------------------
(* C8: new HandlerWrapper(appName) throws unless appName is a non-empty     *)
(* string; wrap(handler, lambdaName) throws unless handler is a function    *)
(* and lambdaName a non-empty string, and for no other arguments; the       *)
(* message names the offending argument and its position, and a call that   *)
(* throws returns no wrapper and no wrapped handler.                        *)

NonEmptyString(v) == v.k = "string" /\ v.s # ""

C8_SetupValidation ==
    /\ lastCall # NoObject =>
          /\ lastCall.op = "constructor" =>
                /\ lastCall.threw <=> ~NonEmptyString(lastCall.args[1])
                /\ lastCall.threw =>
                      lastCall.ex = Err("Invalid app name specified (arg #1)")
          /\ lastCall.op = "wrap" =>
                /\ lastCall.threw <=>
                      \/ lastCall.args[1].k # "function"
                      \/ ~NonEmptyString(lastCall.args[2])
                /\ lastCall.args[1].k # "function" =>
                      lastCall.ex = Err("Invalid handler specified (arg #1)")
                /\ (lastCall.args[1].k = "function"
                      /\ ~NonEmptyString(lastCall.args[2])) =>
                      lastCall.ex =
                          Err("Invalid lambda function name specified (arg #2)")
          /\ lastCall.threw <=> lastCall.object = NoObject
    /\ wrapper # NoObject => NonEmptyString(wrapper.appName)
    /\ wrapped # NoObject =>
          /\ wrapped.handler.k = "function"
          /\ NonEmptyString(wrapped.lambdaName)
          /\ NonEmptyString(wrapped.appName)

C8_Witness ==
    /\ lastCall # NoObject
    /\ lastCall.op = "wrap"
    /\ lastCall.args = <<Fn("handler"), Str("")>>
    /\ lastCall.threw
    /\ wrapped = NoObject

----------------------------------------------------------------------------
(* C9: two invocations of the same wrapped handler, sequential or           *)
(* overlapping, never share a logger or an execution context, and each      *)
(* holds the alias of its own ARN.                                          *)

C9_NoSharing ==
    \A i \in Invocations : \A j \in Invocations :
        LET ri == hist[i]
            rj == hist[j]
        IN  /\ (i # j /\ Initialised(ri) /\ Initialised(rj)) =>
                  ri.logger # rj.logger
            /\ (i # j /\ ri.ctx # 0 /\ rj.ctx # 0) => ri.ctx # rj.ctx
            /\ Initialised(ri) =>
                  /\ heap[ri.logger].type = "logger"
                  /\ heap[ri.logger].meta.alias = ResolvedAlias(ri)
            /\ ri.ctx # 0 =>
                  /\ heap[ri.ctx].type = "context"
                  /\ heap[ri.ctx].alias = ResolvedAlias(ri)
                  /\ heap[ri.ctx].logger = ri.logger
                  /\ \A c \in 1..Len(HandlerCalls(ri)) :
                        HandlerCalls(ri)[c].args[4].id = ri.ctx

\* the second invocation starts while the first one's handler has yet to call
\* back
C9_Witness ==
    /\ Len(hist) = 2
    /\ hist[1].pending
    /\ hist[1].ctx # 0 /\ hist[2].ctx # 0
    /\ hist[1].alias = Str("dev") /\ hist[2].alias = Str("")

----------------------------------------------------------------------------
(* C10: what an invocation does (alias, logger arguments, execution         *)
(* context, callback outcome) depends only on its own event, context and    *)
(* callback: it is what the same invocation does in a process that ran no   *)
(* invocation before.                                                       *)

LoggerView(l) ==
    [name |-> l.name, env |-> l.meta.env, alias |-> l.meta.alias,
     startTime |-> l.startTime, provider |-> l.provider]

\* an event without the identities of the objects it mentions
View(e, h) ==
    IF e.op = "handler"
    THEN [e EXCEPT !.args =
             <<e.args[1], e.args[2], e.args[3],
               [env |-> e.args[4].env, alias |-> e.args[4].alias,
                config |-> e.args[4].config,
                logger |-> LoggerView(h[e.args[4].logger])]>>]
    ELSE e

Observable(r, h) ==
    [alias |-> r.alias, lookup |-> r.lookup, startTime |-> r.startTime,
     thrown |-> r.thrown,
     ev |-> [n \in 1..Len(r.ev) |-> View(r.ev[n], h)]]

FreshProcess(t) ==
    [config |-> config, backend |-> backend, providerCfg |-> NotConfigured,
     heap |-> <<>>, now |-> t]

C10_NoRetainedState ==
    \A i \in Invocations :
        LET r == hist[i]
            alone == WrappedHandler(FreshProcess(r.startTime.n), wrapped,
                                    r.in, r.elapsed)
        IN  Observable(r, heap) = Observable(alone.rec, alone.g.heap)

C10_Witness ==
    /\ Len(hist) = 2
    /\ hist[1].in # hist[2].in
    /\ hist[1].alias = Str("") /\ hist[2].alias = Str("dev")
    /\ hist[1].startTime # hist[2].startTime
    /\ Len(HandlerCalls(hist[1])) = 1
    /\ Len(HandlerCalls(hist[2])) = 1

----------------------------------------------------------------------------
(* C11: every invocation constructs the configuration object exactly once,  *)
(* as new LambdaConfig(appName, alias) with the wrapper's appName and the   *)
(* alias resolved for the invocation, and the user handler receives that    *)
(* instance as executionContext.config.                                     *)

ConfigConstructions(r) == Calls(Happened(r), "new LambdaConfig")

C11_ConfigConstructedOnce ==
    \A i \in Invocations :
        LET r == hist[i]
        IN  Initialised(r) =>
                /\ Len(ConfigConstructions(r)) = 1
                /\ ConfigConstructions(r)[1].args =
                      <<wrapped.appName, ResolvedAlias(r)>>
                /\ \A c \in 1..Len(HandlerCalls(r)) :
                      HandlerCalls(r)[c].args[4].config =
                          [type |-> "LambdaConfig",
                           appName |-> wrapped.appName,
                           alias |-> ResolvedAlias(r)]

----------------------------------------------------------------------------
(* C12: an invocation whose ARN is unqualified or qualified by '$LATEST',   *)
(* in a process whose configuration defines the log level, completes its    *)
(* initialisation (alias, configuration, logger) without throwing and, not  *)
(* being a keep warm invocation, calls the user handler exactly once with   *)
(* executionContext.alias = '' and executionContext.env = ''.               *)

Unqualified(r) ==
    r.in.context.invokedFunctionArn.s
        \in {FunctionArn, FunctionArn \o ":$LATEST"}

C12_UnqualifiedInvocation ==
    \A i \in Invocations :
        LET r == hist[i]
        IN  (Unqualified(r) /\ config = GoodConfig) =>
                /\ r.alias = Str("")
                /\ Initialised(r)
                /\ Len(Calls(r.ev, "config.get")) = 1
                /\ Len(Calls(r.ev, "getLogger")) = 1
                /\ Calls(r.ev, "getLogger")[1].args[2] = Str("")
                /\ ~KeepWarmEvent(r) =>
                      /\ r.thrown = NoThrow
                      /\ Len(HandlerCalls(r)) = 1
                      /\ HandlerCalls(r)[1].args[4].alias = Str("")
                      /\ HandlerCalls(r)[1].args[4].env = Str("")

C12_Witness ==
    /\ Len(hist) = 2
    /\ hist[1].in.context.invokedFunctionArn.s = FunctionArn
    /\ hist[2].in.context.invokedFunctionArn.s = FunctionArn \o ":$LATEST"
    /\ \A i \in 1..2 :
          /\ Len(HandlerCalls(hist[i])) = 1
          /\ HandlerCalls(hist[i])[1].args[4].env = Str("")

----------------------------------------------------------------------------
(* C13: new LambdaLogger(appName, logLevel) and getLogger(lambdaName,       *)
(* alias, startTime) throw an error naming the parameter and its position   *)
(* whenever appName, logLevel or lambdaName is not a non-empty string,      *)
(* alias is not a string, or startTime is not a number greater than 0; the  *)
(* empty alias is accepted and nothing is thrown when all are valid.        *)

Called(op) == lastCall # NoObject /\ lastCall.op = op

PositiveNumber(v) == v.k = "number" /\ ~IsNaN(v) /\ v.n > 0

C13_LoggerPreconditions ==
    /\ Called("new LambdaLogger") =>
          LET a == lastCall.args
          IN  /\ lastCall.threw <=>
                    (~NonEmptyString(a[1]) \/ ~NonEmptyString(a[2]))
              /\ ~NonEmptyString(a[1]) =>
                    lastCall.ex = Err("Invalid appName specified (arg #1)")
              /\ (NonEmptyString(a[1]) /\ ~NonEmptyString(a[2])) =>
                    lastCall.ex = Err("Invalid logLevel specified (arg #2)")
    /\ Called("getLogger") =>
          LET a == lastCall.args
          IN  /\ lastCall.threw <=>
                    \/ ~NonEmptyString(a[1])
                    \/ a[2].k # "string"
                    \/ ~PositiveNumber(a[3])
              /\ ~NonEmptyString(a[1]) =>
                    lastCall.ex = Err("Invalid lambdaName specified (arg #1)")
              /\ (NonEmptyString(a[1]) /\ a[2].k # "string") =>
                    lastCall.ex = Err("Invalid alias specified (arg #2)")
              /\ (NonEmptyString(a[1]) /\ a[2].k = "string"
                    /\ ~PositiveNumber(a[3])) =>
                    lastCall.ex = Err("Invalid startTime specified (arg #3)")

----------------------------------------------------------------------------
(* C14: new LambdaLogger(appName, logLevel) configures the logging backend  *)
(* exactly once, with {appName, logLevel}; a getLogger(lambdaName, alias,   *)
(* startTime) call asks the backend for exactly one logger, named           *)
(* lambdaName, with metadata {env: alias, alias: alias, executionId: a      *)
(* non-empty string no other logger carries}, and returns the backend's     *)
(* object itself, with function members metrics and timespan attached.      *)

C14_LoggerCreation ==
    /\ (Called("new LambdaLogger") /\ ~lastCall.threw) =>
          LET a == lastCall.args
          IN  /\ lastCall.ev =
                    <<Ev("_loggerProvider.configure", "LambdaLogger",
                         <<[appName |-> a[1], logLevel |-> a[2]]>>)>>
              /\ providerCfg = [configured |-> TRUE, appName |-> a[1],
                                logLevel |-> a[2]]
    /\ (Called("getLogger") /\ ~lastCall.threw) =>
          LET a == lastCall.args
              asked == Calls(lastCall.ev, "_loggerProvider.getLogger")
              id == lastCall.object.id
          IN  /\ Len(asked) = 1
              /\ asked[1].args[1] = a[1]
              /\ DOMAIN asked[1].args[2] = {"env", "alias", "executionId"}
              /\ asked[1].args[2].env = a[2]
              /\ asked[1].args[2].alias = a[2]
              /\ NonEmptyString(asked[1].args[2].executionId)
              /\ \A j \in 1..Len(heap) :
                    j # id => heap[j].meta.executionId
                                 # asked[1].args[2].executionId
              /\ id = Len(heap)
              /\ heap[id].type = "logger"
              /\ heap[id].name = a[1]
              /\ heap[id].meta = asked[1].args[2]
              /\ heap[id].provider = providerCfg
              /\ heap[id].metrics.k = "function"
              /\ heap[id].timespan.k = "function"

C14_Witness ==
    /\ Called("getLogger") /\ ~lastCall.threw
    /\ lastCall.args[2] = Str("")
    /\ Len(heap) = 2
    /\ heap[2].meta.env = Str("")
    /\ heap[1].meta.executionId # heap[2].meta.executionId

----------------------------------------------------------------------------
(* C15: logger.metrics(metric, value, props) calls logger.info exactly once *)
(* with one record: the keys of props other than metric and value with      *)
(* their props values, metric and value with the arguments.                 *)

\* what each props argument contributes to a record
Extras(p) ==
    CASE p = Obj([prop1 |-> Str("a"), prop2 |-> Num(2)]) ->
            [prop1 |-> Str("a"), prop2 |-> Num(2)]
      [] p = Obj([metric |-> Str("other"), value |-> Num(0),
                  prop1 |-> Str("a")]) ->
            [prop1 |-> Str("a")]
      [] p = Str("ab") -> ("0" :> Str("a")) @@ ("1" :> Str("b"))
      [] p = Arr(<<Num(9)>>) -> ("0" :> Num(9))
      [] OTHER -> <<>>

C15_Metrics ==
    Called("metrics") =>
        LET a == lastCall.args
            infos == Calls(lastCall.ev, "logger.info")
        IN  /\ Len(infos) = 1
            /\ Len(infos[1].args) = 1
            /\ infos[1].args[1].k = "object"
            /\ infos[1].args[1].props =
                  Extras(a[3]) @@ [metric |-> a[1], value |-> a[2]]

C15_Witness ==
    /\ Called("metrics")
    /\ lastCall.args[3] = Obj([metric |-> Str("other"), value |-> Num(0),
                               prop1 |-> Str("a")])
    /\ Calls(lastCall.ev, "logger.info")[1].args[1].props =
          [metric |-> Str("M"), value |-> Num(7), prop1 |-> Str("a")]

----------------------------------------------------------------------------
(* C16: logger.timespan(metric, referenceStartTime, props) logs one info    *)
(* record whose value is now minus referenceStartTime whenever a            *)
(* referenceStartTime other than null and undefined is supplied, 0          *)
(* included, and now minus the start time given to getLogger only when it   *)
(* is omitted.                                                              *)

TimespanInfos == Calls(lastCall.ev, "logger.info")

C16_TimespanReference ==
    Called("timespan") =>
        LET a == lastCall.args
            from == IF a[2] \in {Undef, Null}
                    THEN heap[lastCall.object.id].startTime
                    ELSE a[2]
        IN  /\ Len(TimespanInfos) = 1
            /\ TimespanInfos[1].args[1].props.metric = a[1]
            /\ TimespanInfos[1].args[1].props.value =
                  (IF IsNaN(from) THEN NaN
                   ELSE Num(lastCall.clock - from.n))

----------------------------------------------------------------------------
(* C17: with a clock that never goes back, timespan(metric) without a       *)
(* reference time, on a logger created with a start time s that is not      *)
(* later than the clock, logs a value v with 0 <= v <= now - s, now being   *)
(* the clock when the call has returned.                                    *)

C17_TimespanRange ==
    (Called("timespan") /\ lastCall.args[2] = Undef) =>
        LET s == heap[lastCall.object.id].startTime
            v == TimespanInfos[1].args[1].props.value
        IN  (~IsNaN(s) /\ s.n <= lastCall.clock) =>
                /\ ~IsNaN(v)
                /\ 0 <= v.n
                /\ v.n <= now - s.n

C17_Witness ==
    /\ Called("timespan") /\ lastCall.args[2] = Undef
    /\ heap[lastCall.object.id].startTime = Num(1)
    /\ lastCall.clock = 2
    /\ TimespanInfos[1].args[1].props.value = Num(1)

----------------------------------------------------------------------------
(* C18: get(key) on a LambdaConfig built with alias a returns the value at  *)
(* the dotted path 'a.key' of the loaded configuration when that path       *)
(* exists; it returns undefined, raising nothing and reading no value, when *)
(* key is not a non-empty string or the path does not exist; it never       *)
(* returns a value stored outside the section of a.                         *)

\* what AliasFiles holds in the section of an alias under a key
Stored(alias, key) ==
    CASE alias = "dev" /\ key = "log" -> Obj([level |-> Str("debug")])
      [] alias = "dev" /\ key = "log.level" -> Str("debug")
      [] alias = "dev" /\ key = "name" -> Str("devName")
      [] alias = "prod" /\ key = "log" -> Obj([level |-> Str("error")])
      [] alias = "prod" /\ key = "log.level" -> Str("error")
      [] OTHER -> NoObject

C18_ConfigGet ==
    Called("get") =>
        LET key == lastCall.args[1]
            held == IF NonEmptyString(key) /\ config = AliasFiles
                    THEN Stored(lambdaConfig.alias.s, key.s)
                    ELSE NoObject
        IN  /\ ~lastCall.threw
            /\ held # NoObject =>
                  /\ lastCall.object = held
                  /\ Len(Calls(lastCall.ev, "_dp.get")) = 1
            /\ held = NoObject =>
                  /\ lastCall.object = Undef
                  /\ Calls(lastCall.ev, "_dp.get") = <<>>
            /\ lastCall.object \notin {Str("top"), Str("info"),
                                       Obj([level |-> Str("info")])}
            /\ ~NonEmptyString(key) => lastCall.ev = <<>>

C18_Witness ==
    /\ Called("get")
    /\ lambdaConfig.alias = Str("prod")
    /\ lastCall.args[1] = Str("log.level")
    /\ lastCall.object = Str("error")

----------------------------------------------------------------------------
(* C19: new LambdaConfig(appName, alias) with valid arguments calls the     *)
(* configuration loader exactly once, with appName and the default          *)
(* properties {log: {level: 'info'}}, so that a log level is there when no  *)
(* file defines one.                                                        *)

C19_ConfigDefaults ==
    (Called("new LambdaConfig") /\ ~lastCall.threw) =>
        /\ lastCall.ev =
              <<Ev("_rc", "LambdaConfig",
                   <<lastCall.args[1],
                     Obj([log |-> Obj([level |-> Str("info")])])>>)>>
        /\ DpGet(lastCall.object.config, "log.level").k = "string"

----------------------------------------------------------------------------
(* C20: after any sequence of invocations of a handler wrapped by the       *)
(* legacy HandlerWrapper, process.env.NODE_ENV is the environment of the    *)
(* most recent invocation's ARN, 'na' for an unqualified ARN or one         *)
(* qualified by '$LATEST' and the alias otherwise; every invocation gave    *)
(* the environment of its own ARN to the user handler as                    *)
(* executionContext.env and to the logger metadata as env.                  *)

\* the legacy environment of an ARN, read off its text
LegacyEnvironmentOf(arn) ==
    CASE arn = FunctionArn -> Str("na")
      [] arn = FunctionArn \o ":dev" -> Str("dev")
      [] arn = FunctionArn \o ":$LATEST" -> Str("na")

C20_LegacyNodeEnv ==
    /\ Len(hist) > 0 =>
          nodeEnv = LegacyEnvironmentOf(
                        hist[Len(hist)].in.context.invokedFunctionArn.s)
    /\ \A i \in Invocations :
          LET r == hist[i]
              env == LegacyEnvironmentOf(r.in.context.invokedFunctionArn.s)
          IN  /\ r.logger # 0 =>
                    /\ heap[r.logger].meta.env = env
                    /\ Len(HandlerCalls(r)) = 1
                    /\ HandlerCalls(r)[1].args[4].env = env
                    /\ HandlerCalls(r)[1].args[4].logger = r.logger
              /\ r.logger = 0 => HandlerCalls(r) = <<>>

C20_Witness ==
    /\ Len(hist) = 2
    /\ hist[1].in.context.invokedFunctionArn.s = FunctionArn \o ":dev"
    /\ hist[2].in.context.invokedFunctionArn.s = FunctionArn \o ":$LATEST"
    /\ Len(HandlerCalls(hist[1])) = 1 /\ Len(HandlerCalls(hist[2])) = 1
    /\ HandlerCalls(hist[1])[1].args[4].env = Str("dev")
    /\ HandlerCalls(hist[2])[1].args[4].env = Str("na")
    /\ nodeEnv = Str("na")

----------------------------------------------------------------------------
(* Reading a call on an Environment *)

\* the environment map in use, as the claims describe it: the custom map
\* when a non-array object was supplied, the default map otherwise
MapInUse(args) ==
    IF args[2].k = "object" THEN args[2].props ELSE DefaultEnvMap

\* env is a non-empty string and a key of the map in use
EnvInMap(args) ==
    NonEmptyString(args[1]) /\ args[1].s \in DOMAIN MapInUse(args)

\* member name was read of the instance
ReadOf(name) == Called("read") /\ lastCall.args = <<Str(name)>>

----------------------------------------------------------------------------
(* C21: isValid is true exactly when the env given to the constructor is a  *)
(* key of the environment map in use (the custom map when a non-array       *)
(* object was supplied, else the default map) whose token is a string, ''   *)
(* included; it is false for every env that is not a non-empty string and   *)
(* for every env absent from the map.                                       *)

C21_IsValid ==
    ReadOf("isValid") =>
        lastCall.object =
            Bool(/\ EnvInMap(environment.args)
                 /\ MapInUse(environment.args)[environment.args[1].s].k
                        = "string")

----------------------------------------------------------------------------
(* C22: every Environment instance exposes a token property: the map's      *)
(* token for env when env is present in the map in use (with the default    *)
(* map the token of 'dev', 'qa' and 'prod' is the environment string        *)
(* itself), undefined when env is not a non-empty string or is absent from  *)
(* the map.                                                                 *)

C22_Token ==
    ReadOf("token") =>
        LET args == environment.args
        IN  /\ lastCall.object =
                   IF EnvInMap(args) THEN MapInUse(args)[args[1].s]
                   ELSE Undef
            /\ (args[2].k # "object"
                    /\ args[1] \in {Str("dev"), Str("qa"), Str("prod")})
               => lastCall.object = args[1]

----------------------------------------------------------------------------
(* C23: getSuffixString(value) returns, for a string value ('' included),   *)
(* value + separator + token when the environment is valid with a non-empty *)
(* token, value itself when the token is '', and undefined when the         *)
(* environment is not valid; for any other value it throws 'Invalid value   *)
(* specified (arg #1)'.  With the default map each of dev, qa and prod      *)
(* yields value + separator + the environment name.                         *)

C23_SuffixString ==
    Called("getSuffixString") =>
        LET value == lastCall.args[1]
            args == environment.args
            separator == environment._separator.s
            token == environment._envToken
        IN  IF value.k # "string"
            THEN /\ lastCall.threw
                 /\ lastCall.ex = Err("Invalid value specified (arg #1)")
            ELSE /\ ~lastCall.threw
                 /\ lastCall.object =
                        IF ~IsValid(environment) THEN Undef
                        ELSE IF token.s = "" THEN value
                        ELSE Str(value.s \o separator \o token.s)
                 /\ (args[2].k # "object"
                         /\ args[1] \in {Str("dev"), Str("qa"), Str("prod")})
                    => lastCall.object =
                           Str(value.s \o separator \o args[1].s)

----------------------------------------------------------------------------
(* C30: for every environment map, custom maps included, an Environment     *)
(* constructed with an env that is not a non-empty string has env           *)
(* undefined, isValid false and getSuffixString returning undefined for     *)
(* every string value: no key of the map, a key named 'undefined'           *)
(* included, makes such an instance valid.                                  *)

C30_InvalidEnv ==
    (environment # NoObject /\ ~NonEmptyString(environment.args[1])) =>
        /\ ReadOf("env") => lastCall.object = Undef
        /\ ReadOf("isValid") => lastCall.object = Bool(FALSE)
        /\ (Called("getSuffixString") /\ lastCall.args[1].k = "string")
           => (~lastCall.threw /\ lastCall.object = Undef)

----------------------------------------------------------------------------
(* C24: the FAILED outcome (error logged and callback invoked with the      *)
(* 'Unhandled error executing lambda' error) is reached only after the user *)
(* handler was invoked and threw synchronously: never from the keep warm    *)
(* short circuit, never when the user handler was not called.               *)

StartsWith(text, prefix) ==
    Len(text) >= Len(prefix) /\ SubSeq(text, 1, Len(prefix)) = prefix

\* the guard logged an error and called back with its 'Unhandled error'
Failed(r) ==
    /\ CallsBy(Happened(r), "logger.error", "wrapper") # <<>>
    /\ \E c \in 1..Len(GuardCallbacks(r)) :
          LET a == GuardCallbacks(r)[c].args
          IN  /\ Len(a) = 1 /\ a[1].k = "Error"
              /\ StartsWith(a[1].message,
                     "[Error] Unhandled error executing lambda")

C24_FailedOnlyFromHandler ==
    \A i \in Invocations :
        Failed(hist[i]) =>
            /\ ~KeepWarmEvent(hist[i])
            /\ Len(HandlerCalls(hist[i])) = 1
            /\ hist[i].in.handler.throws # NoThrow

----------------------------------------------------------------------------
(* C25: a failure thrown by the configuration or logging collaborators      *)
(* during an invocation (configuration lookup, logger construction, the     *)
(* logger's info, timespan and error calls) is never caught by the guard:   *)
(* it propagates out of the wrapped handler and the guard does not invoke   *)
(* the callback for it.                                                     *)

\* the configuration lookup or the construction of the logger threw
SetUpFailed(r) == r.logger = 0

\* a call of the logger threw
LoggerFailed(r) ==
    \/ /\ backend \in {"infoThrows", "infoThrowsOnce"}
       /\ Calls(r.ev, "logger.info") # <<>>
    \/ /\ backend = "errorThrows"
       /\ Calls(r.ev, "logger.error") # <<>>

\* the catch block received exception ex
Caught(r, ex) ==
    \E c \in 1..Len(Calls(r.ev, "logger.error")) :
        Calls(r.ev, "logger.error")[c].args[1] = ex

C25_CollaboratorFailuresPropagate ==
    \A i \in Invocations :
        LET r == hist[i]
        IN  /\ SetUpFailed(r) =>
                 /\ r.thrown # NoThrow
                 /\ CallbackCalls(r) = <<>>
                 /\ Calls(r.ev, "logger.error") = <<>>
            /\ LoggerFailed(r) =>
                 /\ r.thrown = BackendFailure
                 /\ ~Caught(r, BackendFailure)
                 /\ GuardCallbacks(r) = <<>>

----------------------------------------------------------------------------
(* C26: within an invocation the start time is captured first, then the     *)
(* alias is resolved, then the configuration is obtained and its log        *)
(* section read, then the logger is created; only then is the keep warm     *)
(* branch taken or the user handler invoked.  The user handler is never     *)
(* invoked before the logger exists and at most once per invocation: a      *)
(* handler that failed is not called again.                                 *)

\* the calls of the try and catch blocks
BranchCall(e) ==
    \/ e.op = "handler"
    \/ e.op \in {"logger.timespan", "logger.info", "logger.error", "callback"}

C26_Ordering ==
    \A i \in Invocations :
        LET r == hist[i]
            e == Happened(r)
        IN  /\ e[1].op = "Date.now" /\ e[1].args = <<r.startTime>>
            /\ e[2].op = "_initAlias"
            /\ First(e, "require") > 2
            /\ First(e, "config.get") > First(e, "require")
            /\ e[First(e, "config.get")].args = <<Str("log")>>
            /\ \A p \in 1..Len(e) :
                  /\ e[p].op = "new LambdaLogger" => p > First(e, "config.get")
                  /\ e[p].op = "getLogger" => p > First(e, "new LambdaLogger")
                  /\ BranchCall(e[p]) =>
                        /\ First(e, "getLogger") > 0
                        /\ p > First(e, "getLogger")
                        /\ r.logger # 0
                        /\ heap[r.logger].type = "logger"
            /\ Len(HandlerCalls(r)) <= 1
            /\ Len(HandlerCalls(r)) = 1 =>
                  HandlerCalls(r)[1].args[4].logger = r.logger

C26_Witness ==
    \E i \in Invocations :
        /\ hist[i].in.handler.throws = Err("boom")
        /\ Len(HandlerCalls(hist[i])) = 1
        /\ First(Happened(hist[i]), "getLogger") > 0
        /\ First(Happened(hist[i]), "getLogger")
              < First(Happened(hist[i]), "handler")
        /\ Failed(hist[i])

----------------------------------------------------------------------------
(* C27: when the event is not a keep warm event and the user handler        *)
(* neither calls the callback nor throws synchronously, the callback is     *)
(* never invoked in that invocation: the guard reports neither success nor  *)
(* failure on its own, also when the handler fails after it returned.       *)

Silent(r) ==
    /\ ~KeepWarmEvent(r)
    /\ r.in.handler.calls \in {"none", "fails"}
    /\ r.in.handler.throws = NoThrow

C27_NoDeadline ==
    \A i \in Invocations :
        Silent(hist[i]) => CallbackCalls(hist[i]) = <<>>

C27_Witness ==
    \E i \in Invocations :
        /\ Silent(hist[i])
        /\ Len(HandlerCalls(hist[i])) = 1
        /\ Calls(hist[i].late, "uncaughtException") # <<>>
        /\ CallbackCalls(hist[i]) = <<>>

----------------------------------------------------------------------------
(* C28: run side by side on the same ARN, the legacy and the current        *)
(* wrapper pass the same env to the user handler when segment 7 of the ARN  *)
(* is a string other than the sentinel, and differ only for an unqualified  *)
(* or '$LATEST' ARN: there the legacy one yields 'na', and writes it to     *)
(* process.env.NODE_ENV, and the current one yields '' and writes no        *)
(* process-wide variable.                                                   *)

\* the record is of the legacy wrapper
Legacy(r) == "env" \in DOMAIN r

\* segment 7 of the ARN is absent or the sentinel, read off the text
Sentinel(arn) == arn \in {FunctionArn, FunctionArn \o ":$LATEST"}

\* the env the user handler received
EnvPassed(r) == HandlerCalls(r)[1].args[4].env

C28_EnvPassed ==
    \A i \in Invocations, j \in Invocations :
        LET l == hist[i]
            c == hist[j]
        IN  (/\ Legacy(l) /\ ~Legacy(c)
             /\ l.in.context = c.in.context
             /\ Len(HandlerCalls(l)) = 1 /\ Len(HandlerCalls(c)) = 1) =>
                IF Sentinel(l.in.context.invokedFunctionArn.s)
                THEN EnvPassed(l) = Str("na") /\ EnvPassed(c) = Str("")
                ELSE EnvPassed(l) = EnvPassed(c)

\* what an invocation does to process.env.NODE_ENV
C28_EnvWritten ==
    Len(hist') = Len(hist) + 1 =>
        LET r == hist'[Len(hist')]
        IN  IF Legacy(r) THEN nodeEnv' = r.env
            ELSE nodeEnv' = nodeEnv

C28_SideBySide == [](C28_EnvPassed) /\ [][C28_EnvWritten]_vars

C28_Witness ==
    \E i \in Invocations, j \in Invocations :
        /\ Legacy(hist[i]) /\ ~Legacy(hist[j])
        /\ i < j
        /\ hist[i].in.context = Context(FunctionArn \o ":$LATEST")
        /\ hist[j].in.context = Context(FunctionArn \o ":$LATEST")
        /\ Len(HandlerCalls(hist[i])) = 1 /\ Len(HandlerCalls(hist[j])) = 1
        /\ EnvPassed(hist[i]) = Str("na")
        /\ EnvPassed(hist[j]) = Str("")
        /\ nodeEnv = Str("na")

----------------------------------------------------------------------------
(* C29: logger.metrics and logger.timespan never modify the props object    *)
(* of the caller: after the call it has the keys and values it had before,  *)
(* and the record given to info is another object; when props has a metric  *)
(* or value key of its own the record carries the metric of the call and    *)
(* the value of the call (given to metrics, computed by timespan).          *)

\* the value a timespan call computes, whatever its props
ComputedValue ==
    TimespanRecord(heap[lastCall.object.id], lastCall.args[1],
                   lastCall.args[2], Undef, lastCall.clock).value

C29_PropsUntouched ==
    (Called("metrics") \/ Called("timespan")) =>
        LET props == lastCall.args[3]
            record == lastCall.objects[lastCall.record]
            infos == Calls(lastCall.ev, "logger.info")
        IN  /\ props.k \in {"object", "array"} =>
                  /\ lastCall.objects[1] = props
                  /\ lastCall.record # 1
            /\ Len(infos) = 1
            /\ infos[1].args = <<record>>
            /\ record.props.metric = lastCall.args[1]
            /\ Called("metrics") => record.props.value = lastCall.args[2]
            /\ Called("timespan") => record.props.value = ComputedValue

C29_Witness ==
    /\ Called("timespan")
    /\ lastCall.args[3].k = "object"
    /\ lastCall.args[3].props.metric = Str("other")
    /\ lastCall.args[3].props.value = Num(0)
    /\ lastCall.objects[1] = lastCall.args[3]
    /\ lastCall.record = 2
    /\ lastCall.objects[2].props.metric = Str("M")
    /\ lastCall.objects[2].props.value = Num(1)

====
